---- MODULE Spec2Model ----
(***************************************************************************)
(* Model of the heimdall bridge ("pier"): the Syncer's confirmed-header    *)
(* pipeline (bridge/pier/syncer.go) and the checkpoint range computation   *)
(* of the MaticCheckpointer.                                               *)
(***************************************************************************)
EXTENDS Integers, Sequences, FiniteSets, TLC

\* ------------------------------------------------------------------ bounds
\* highest main-chain block number a header can carry
MaxBlock == 2
\* highest header timestamp
MaxTime == 0
\* capacity given to the in-memory header queue
MaxQueue == 2

\* highest child-chain block number (on-chain end, latest child block)
MaxChild == 6
\* highest configured AvgCheckpointLength
MaxAvgLength == 3
\* highest configured MaxCheckpointLength
MaxMaxLength == 4
\* highest on-chain checkpoint timestamp
MaxStamp == 1
\* highest clock value read by isForcePushNeeded
MaxCkNow == 10
\* uint64 arithmetic is carried out modulo 2^WordBits: TLC's integers are 32
\* bits wide, and every height and length of the model is far below 2^WordBits
WordBits == 16

\* configuration: helper.GetConfig().TxConfirmationTime, in seconds
TxConfirmationTime == 1

\* where a call can die once the cursor is written: nowhere (-1), before the
\* first log is dispatched (0), after the first log is dispatched (1)
CrashPoints == {-1, 0, 1}

\* configuration: helper.GetConfig().ChildBlockInterval
ChildBlockInterval == 1

\* timer ticks of the span service that are followed
MaxSpanTick == 2
\* ticks of the syncer's poll timer in one run
MaxPoll == 2
\* headers taken from HeaderChannel in one run
MaxReceived == 2
\* highest header number a source delivers
MaxSrcHeader == 2
\* runs of the bridge process
MaxRuns == 2
\* highest block number, highest timestamp and longest queue of the
\* processHeader calls on drawn inputs
MaxScanBlock == 3
MaxScanTime == 1
MaxScanQueue == 2

\* the wall clock runs until the latest header can be confirmed
MaxNow == MaxTime + TxConfirmationTime

\* ------------------------------------------------------------- constants
lastBlockKey == "last-block"
lastSpanKey == "span-key"
BorChainID == "15001"

\* the validator identities a process can be started with
Validators ==
  { [id |-> 1, address |-> "addr1", pubkey |-> "pub1"],
    [id |-> 2, address |-> "addr2", pubkey |-> "pub2"] }

VARIABLES
  headerQueue,   \* syncer.headerQueue: sequence of LightHeader
  storage,       \* bridge DB: key -> [has, val], val a decimal digit string
  now,           \* wall clock, seconds
  me,            \* process-wide validator identity
  sent,          \* every message handed to BroadcastToHeimdall, all runs
  covered,       \* this run: height -> covered by "no", "one" or "more" queries
  last,          \* record of the latest processHeader execution
  ck,            \* one nextExpectedCheckpoint call: inputs, stage, result
  spanSvc,       \* SpanService: the latest timer tick, the calls of
                 \* BroadcastTxBytes and the relay of every tick
  headerSource,  \* Syncer run: subscription, polling and HeaderChannel
  scan,          \* one processHeader call on a drawn queue, clock and cursor
  join,          \* one sendRequest call: its three fetch tasks and the join
  logDispatch,   \* one run of the log loop of processHeader on drawn logs
  dbClose,       \* a processHeader call racing with Syncer.OnStop
  keeper,        \* the checkpoint keeper's KV store and its latest reads
  blockWait      \* one GetBlockWithClient call and the chain it watches

syncerVars ==
  <<headerQueue, storage, now, me, sent, covered, last>>

laterVars == <<logDispatch, dbClose, keeper, blockWait>>

vars == <<syncerVars, ck, spanSvc, headerSource, scan, join, laterVars>>

\* ------------------------------------------------ decimal ASCII conversion
RECURSIVE Itoa(_)
\* big.Int.String() of a non-negative number: its decimal digits
Itoa(n) == IF n < 10 THEN <<n>> ELSE Append(Itoa(n \div 10), n % 10)

RECURSIVE DigitsValue(_)
DigitsValue(s) ==
  IF Len(s) = 0 THEN 0
  ELSE 10 * DigitsValue(SubSeq(s, 1, Len(s) - 1)) + s[Len(s)]

\* strconv.ParseUint(s, 10, 64): error on an empty or non-digit string
ParseUint(s) ==
  IF Len(s) = 0 \/ (\E i \in 1..Len(s) : s[i] \notin 0..9)
  THEN [err |-> TRUE, val |-> 0]
  ELSE [err |-> FALSE, val |-> DigitsValue(s)]

\* the stored cursor as a number, -1 when the key is absent
Cursor(st) == IF st[lastBlockKey].has THEN ParseUint(st[lastBlockKey].val).val ELSE -1

\* --------------------------------------------------------- the main chain
\* A log of a watched contract: block, index in the block, transaction
\* hash, first topic, whether the ABI unpack of its data succeeds, and the
\* decoded fields the handlers read (arg: HeaderBlockId / Id / ValidatorId).
Log(b, i, topic, ok, arg, signer) ==
  [block |-> b, idx |-> i, tx |-> 100 * b + i, topic |-> topic, ok |-> ok,
   arg |-> arg, signer |-> signer]

\* the logs the main chain holds in block b, in log-index order
LogsOfBlock(b) ==
  IF b % 2 = 1
  THEN << Log(b, 0, "NewHeaderBlock", TRUE, 10 * b, "none"),
          Log(b, 1, "Staked", TRUE, 1, "addr1"),
          Log(b, 2, "Staked", TRUE, 2, "addr2"),
          Log(b, 3, "UnstakeInit", TRUE, 1, "none"),
          Log(b, 4, "UnstakeInit", TRUE, 2, "none"),
          Log(b, 5, "StateSynced", TRUE, 7 + b, "none"),
          Log(b, 6, "NewHeaderBlock", FALSE, 0, "none"),
          Log(b, 7, "Withdraw", TRUE, 0, "none") >>
  ELSE << Log(b, 0, "StakeUpdate", TRUE, 1, "none"),
          Log(b, 1, "StakeUpdate", TRUE, 2, "none"),
          Log(b, 2, "SignerChange", TRUE, 1, "addr2"),
          Log(b, 3, "SignerChange", TRUE, 2, "addr1"),
          Log(b, 4, "TopUpFee", TRUE, 2, "none"),
          Log(b, 5, "ReStaked", TRUE, 1, "none"),
          Log(b, 6, "Jailed", TRUE, 2, "none"),
          Log(b, 7, "StateSynced", FALSE, 0, "none"),
          Log(b, 8, "UnstakeInit", FALSE, 1, "none") >>

RECURSIVE FilterLogs(_, _)
\* MainChainClient.FilterLogs({FromBlock, ToBlock, Addresses}) when the RPC
\* succeeds: the logs of the blocks from..to in chain order (none if from > to)
FilterLogs(from, to) ==
  IF from > to THEN << >> ELSE LogsOfBlock(from) \o FilterLogs(from + 1, to)

AllLogs == { FilterLogs(1, MaxBlock)[i] : i \in 1..Len(FilterLogs(1, MaxBlock)) }

\* the result of every query processHeader can issue, computed once
QueryResult ==
  [from \in 1..(MaxBlock + 1), to \in 1..MaxBlock |-> FilterLogs(from, to)]

\* ------------------------------------------------------------ ABI lookup
RootChainABI == {"NewHeaderBlock"}
StateSenderABI == {"StateSynced"}
StakingInfoABI ==
  {"Staked", "UnstakeInit", "StakeUpdate", "SignerChange", "ReStaked", "Jailed",
   "TopUpFee"}

\* syncer.abis, in the order NewSyncer builds it
abis == << RootChainABI, StateSenderABI, StakingInfoABI >>

\* helper.EventByID: the event of the ABI with this selector, or "nil"
EventByID(abiObject, topic) == IF topic \in abiObject THEN topic ELSE "nil"

\* ------------------------------------------------------------- messages
Msg(type, from, arg, pubkey, txHash, logIndex, chain) ==
  [type |-> type, from |-> from, arg |-> arg, pubkey |-> pubkey,
   txHash |-> txHash, logIndex |-> logIndex, chain |-> chain]

\* helper.GetAddress(): the validator's own address
GetAddress(id) == id.address

\* helper.GetFromAddress(cliCtx): the submitter address of the CLI context
GetFromAddress(id) == id.address

\* helper.GetPubKey()
GetPubKey(id) == id.pubkey

\* isEventSender(cliCtx, validatorID): the event's validator is this one
isEventSender(id, validatorId) == validatorId = id.id

\* processCheckpointEvent numbering its messages by what was broadcast before
processCheckpointEventNumbered(vLog, id) ==
  IF ~vLog.ok THEN << >>
  ELSE << Msg("CheckpointAck", GetFromAddress(id), vLog.arg + Cardinality(sent),
              "none", vLog.tx, vLog.idx, "none") >>

\* Each handler yields the sequence of messages it hands to
\* queueConnector.BroadcastToHeimdall for one log (empty or one message).
processCheckpointEvent(vLog, id) ==
  IF ~vLog.ok THEN << >>
  ELSE << Msg("CheckpointAck", GetFromAddress(id), vLog.arg, "none",
              vLog.tx, vLog.idx, "none") >>

processStakedEvent(vLog, id) ==
  IF ~vLog.ok THEN << >>
  ELSE IF isEventSender(id, vLog.arg)
       THEN << Msg("ValidatorJoin", GetAddress(id), vLog.arg, GetPubKey(id),
                   vLog.tx, vLog.idx, "none") >>
       ELSE << >>

processUnstakeInitEvent(vLog, id) ==
  IF ~vLog.ok THEN << >>
  ELSE IF isEventSender(id, vLog.arg)
       THEN << Msg("ValidatorExit", GetAddress(id), vLog.arg, "none",
                   vLog.tx, vLog.idx, "none") >>
       ELSE << >>

processStakeUpdateEvent(vLog, id) ==
  IF ~vLog.ok THEN << >>
  ELSE IF isEventSender(id, vLog.arg)
       THEN << Msg("StakeUpdate", GetAddress(id), vLog.arg, "none",
                   vLog.tx, vLog.idx, "none") >>
       ELSE << >>

\* processSignerChangeEvent without the comparison of NewSigner
processSignerChangeEventUngated(vLog, id) ==
  IF ~vLog.ok THEN << >>
  ELSE << Msg("SignerUpdate", GetAddress(id), vLog.arg, GetPubKey(id),
              vLog.tx, vLog.idx, "none") >>

processSignerChangeEvent(vLog, id) ==
  IF ~vLog.ok THEN << >>
  ELSE IF vLog.signer = GetAddress(id)
       THEN << Msg("SignerUpdate", GetAddress(id), vLog.arg, GetPubKey(id),
                   vLog.tx, vLog.idx, "none") >>
       ELSE << >>

processReStakedEvent(vLog, id) == << >>

processJailedEvent(vLog, id) == << >>

processStateSyncedEvent(vLog, id) ==
  IF ~vLog.ok THEN << >>
  ELSE << Msg("EventRecord", GetAddress(id), vLog.arg, "none",
              vLog.tx, vLog.idx, BorChainID) >>

\* processTopupFeeEvent behind the identity filter of the staking handlers
processTopupFeeEventGated(vLog, id) ==
  IF ~vLog.ok THEN << >>
  ELSE IF isEventSender(id, vLog.arg)
       THEN << Msg("Topup", GetFromAddress(id), vLog.arg, "none",
                   vLog.tx, vLog.idx, "none") >>
       ELSE << >>

processTopupFeeEvent(vLog, id) ==
  IF ~vLog.ok THEN << >>
  ELSE << Msg("Topup", GetFromAddress(id), vLog.arg, "none",
              vLog.tx, vLog.idx, "none") >>

\* the switch with the case "Staked" left in
HandleEventWithStaked(name, vLog, id) ==
  CASE name = "NewHeaderBlock" -> processCheckpointEvent(vLog, id)
    [] name = "Staked"         -> processStakedEvent(vLog, id)
    [] name = "UnstakeInit"    -> processUnstakeInitEvent(vLog, id)
    [] name = "StakeUpdate"    -> processStakeUpdateEvent(vLog, id)
    [] name = "SignerChange"   -> processSignerChangeEvent(vLog, id)
    [] name = "ReStaked"       -> processReStakedEvent(vLog, id)
    [] name = "Jailed"         -> processJailedEvent(vLog, id)
    [] name = "StateSynced"    -> processStateSyncedEvent(vLog, id)
    [] name = "TopUpFee"       -> processTopupFeeEvent(vLog, id)
    [] OTHER                   -> << >>

\* the switch on selectedEvent.Name in processHeader; "Staked" has no case
HandleEvent(name, vLog, id) ==
  CASE name = "NewHeaderBlock" -> processCheckpointEvent(vLog, id)
    [] name = "UnstakeInit"    -> processUnstakeInitEvent(vLog, id)
    [] name = "StakeUpdate"    -> processStakeUpdateEvent(vLog, id)
    [] name = "SignerChange"   -> processSignerChangeEvent(vLog, id)
    [] name = "ReStaked"       -> processReStakedEvent(vLog, id)
    [] name = "Jailed"         -> processJailedEvent(vLog, id)
    [] name = "StateSynced"    -> processStateSyncedEvent(vLog, id)
    [] name = "TopUpFee"       -> processTopupFeeEvent(vLog, id)
    [] OTHER                   -> << >>

RECURSIVE DispatchFrom(_, _, _)
\* the inner loop over syncer.abis from position k: the first ABI that knows
\* the topic decides (break), a topic no ABI knows produces nothing
DispatchFrom(k, vLog, id) ==
  IF k > Len(abis) THEN << >>
  ELSE IF EventByID(abis[k], vLog.topic) # "nil"
       THEN HandleEvent(EventByID(abis[k], vLog.topic), vLog, id)
       ELSE DispatchFrom(k + 1, vLog, id)

DispatchLog(vLog, id) == DispatchFrom(1, vLog, id)

\* what the loop body broadcasts for each log under each identity, computed
\* once
Dispatched == [vLog \in AllLogs, id \in Validators |-> DispatchLog(vLog, id)]

RECURSIVE DispatchLogs(_, _)
\* the outer loop "for _, vLog := range logs"
DispatchLogs(logs, id) ==
  IF Len(logs) = 0 THEN << >>
  ELSE Dispatched[Head(logs), id] \o DispatchLogs(Tail(logs), id)

\* ---------------------------------------------------------- processHeader
RECURSIVE ConfirmedPrefixNoDelay(_, _)
\* the drain loop comparing h.Time alone with the clock
ConfirmedPrefixNoDelay(q, currentTime) ==
  IF Len(q) = 0 THEN 0
  ELSE IF Head(q).time > currentTime THEN 0
       ELSE 1 + ConfirmedPrefixNoDelay(Tail(q), currentTime)

RECURSIVE ConfirmedCount(_, _)
\* the drain loop counting every confirmed header of the queue instead of
\* stopping at the first unconfirmed one
ConfirmedCount(q, currentTime) ==
  IF Len(q) = 0 THEN 0
  ELSE (IF Head(q).time + TxConfirmationTime > currentTime THEN 0 ELSE 1)
         + ConfirmedCount(Tail(q), currentTime)

RECURSIVE ConfirmedPrefix(_, _)
\* the loop "for syncer.headerQueue.Len() > 0": how many headers leave the
\* head of the queue; it stops at the first h with h.Time+txConfirmationTime
\* > currentTime
ConfirmedPrefix(q, currentTime) ==
  IF Len(q) = 0 THEN 0
  ELSE IF Head(q).time + TxConfirmationTime > currentTime THEN 0
       ELSE 1 + ConfirmedPrefix(Tail(q), currentTime)

\* fromBlock as lines 264-282 compute it: the first drained number, replaced
\* by the stored cursor + 1 whenever a cursor was read and parsed (the
\* assignment under "result > fromBlock" is overwritten by the next line)
FromBlock(start, hasLastBlock, lastBlockBytes) ==
  IF ~hasLastBlock THEN start
  ELSE LET r == ParseUint(lastBlockBytes)
           viaIf == IF r.val > start THEN r.val ELSE start
       IN IF r.err THEN start ELSE r.val + 1

\* storageClient.Put(lastBlockKey, toBlock.String())
PutLastBlock(st, toBlock) ==
  [st EXCEPT ![lastBlockKey] = [has |-> TRUE, val |-> Itoa(toBlock)]]

NoHeader == [number |-> -1, time |-> -1]

NoCover == [h \in 1..MaxBlock |-> "no"]

Cover(cov, from, to) ==
  [h \in DOMAIN cov |->
     IF from <= h /\ h <= to
     THEN (IF cov[h] = "no" THEN "one" ELSE "more")
     ELSE cov[h]]

\* what the latest call did: its outcome, the clock it read, the number of
\* headers it drained and the last of them, the cursor it found, the query
\* it issued and the messages it broadcast
CallRecord(outcome, clock, n, confirmed, from, to, msgs) ==
  [outcome |-> outcome, clock |-> clock, drained |-> n, confirmed |-> confirmed,
   from |-> from, to |-> to, before |-> Cursor(storage), msgs |-> msgs]

Elems(s) == { s[i] : i \in 1..Len(s) }

\* One header taken from HeaderChannel by startHeaderProcess and handled by
\* processHeader.  Inputs: the header, the failures of the storage reads
\* (Has, Get) and of the FilterLogs RPC, and crashAt: -1 for a call that
\* returns, k >= 0 for a process that dies after the cursor Put and after k
\* logs of the query result were dispatched (the queue is lost with it).
ProcessHeader(num, time, hasErr, getErr, filterErr, crashAt) ==
  /\ Len(headerQueue) < MaxQueue
  /\ UNCHANGED <<now, me, ck, spanSvc, headerSource, scan, join, laterVars>>
  /\ LET header == [number |-> num, time |-> time]
         q1 == Append(headerQueue, header)
         currentTime == now
         n == ConfirmedPrefix(q1, currentTime)
         rest == SubSeq(q1, n + 1, Len(q1))
     IN
     IF n = 0
        THEN \* start == nil: return
             /\ crashAt = -1 /\ ~hasErr /\ ~getErr /\ ~filterErr
             /\ headerQueue' = q1
             /\ UNCHANGED <<storage, sent, covered>>
             /\ last' = CallRecord("unconfirmed", currentTime, 0, NoHeader,
                                   -1, -1, << >>)
        ELSE
          LET start == q1[1].number
              end == q1[n].number
              hasLastBlock == storage[lastBlockKey].has /\ ~hasErr
          IN
          IF hasLastBlock /\ getErr
          THEN \* storageClient.Get failed: return
               /\ crashAt = -1 /\ ~filterErr
               /\ headerQueue' = rest
               /\ UNCHANGED <<storage, sent, covered>>
               /\ last' = CallRecord("getError", currentTime, n, q1[n],
                                     -1, -1, << >>)
          ELSE
            LET fromBlock == FromBlock(start, hasLastBlock,
                                       storage[lastBlockKey].val)
                toBlock == end
                logs == IF filterErr THEN << >>
                        ELSE QueryResult[fromBlock, toBlock]
                done == IF crashAt = -1 THEN logs
                        ELSE SubSeq(logs, 1, crashAt)
                msgs == DispatchLogs(done, me)
            IN
            /\ ~getErr
            /\ crashAt <= Len(logs)
            /\ storage' = PutLastBlock(storage, toBlock)
            /\ sent' = sent \cup Elems(msgs)
            /\ headerQueue' = IF crashAt = -1 THEN rest ELSE << >>
            /\ covered' = IF crashAt # -1 THEN NoCover
                          ELSE IF filterErr THEN covered
                          ELSE Cover(covered, fromBlock, toBlock)
            /\ last' = CallRecord(IF crashAt # -1 THEN "crash"
                                  ELSE IF filterErr THEN "filterError"
                                  ELSE "scanned",
                                  currentTime, n, q1[n], fromBlock, toBlock,
                                  msgs)

\* the wall clock advances
Tick ==
  /\ now < MaxNow
  /\ now' = now + 1
  /\ UNCHANGED <<headerQueue, storage, me, sent, covered, last, ck, spanSvc,
               headerSource, scan, join, laterVars>>

NoCall ==
  [outcome |-> "none", clock |-> 0, drained |-> 0, confirmed |-> NoHeader,
   from |-> -1, to |-> -1, before |-> -1, msgs |-> << >>]

\* the process stops between two headers and is started again: the queue is
\* rebuilt empty by NewSyncer, the bridge DB keeps its content
Restart ==
  /\ last.outcome \notin {"none", "restart"}
  /\ headerQueue' = << >>
  /\ covered' = NoCover
  /\ last' = [NoCall EXCEPT !.outcome = "restart"]
  /\ UNCHANGED <<storage, now, me, sent, ck, spanSvc, headerSource, scan,
               join, laterVars>>

\* state after NewSyncer on an empty bridge DB
InitSyncer ==
  /\ headerQueue = << >>
  /\ storage = [k \in {lastBlockKey, lastSpanKey} |->
                  [has |-> FALSE, val |-> << >>]]
  /\ now = 0
  /\ me \in Validators
  /\ sent = {}
  /\ covered = NoCover
  /\ last = NoCall

CkIdle ==
  [stage |-> "idle", endBlock |-> 0, timeStamp |-> 0, latestChildBlock |-> 0,
   avg |-> 1, max |-> 1, clock |-> 0, start |-> 0, end |-> 0, diff |-> 0,
   forced |-> FALSE, currentHeaderBlock |-> "nil", committedEnd |-> 0,
   decision |-> "none", submitted |-> << >>]

\* one relay slot of the span service before its tick
NoRelay ==
  [broadcast |-> "none", tx |-> << >>, event |-> "none", votes |-> "none",
   proof |-> "none", panic |-> FALSE, called |-> FALSE, body |-> << >>]

\* the span service after OnStart, before the first tick of its timer
SpanIdle ==
  [ticks |-> 0, query |-> "none", signer |-> "none", started |-> FALSE,
   outcome |-> "none", lastSpanStart |-> 0, currentBlock |-> 0,
   lastSpanEnd |-> 0, requested |-> 0, msgStart |-> 0,
   sends |-> 0, relays |-> [i \in 1..MaxSpanTick |-> NoRelay]]

\* the syncer before OnStart
SourceIdle ==
  [phase |-> "new", runs |-> 1, attempts |-> 0, subscription |-> "none",
   subscribedTo |-> "none", polling |-> "none", polledTo |-> "none",
   polls |-> 0, HeaderChannel |-> << >>, received |-> 0,
   headerProcess |-> "none", ctxCancelled |-> FALSE,
   headerCtxCancelled |-> FALSE, taken |-> << >>, executing |-> << >>,
   handled |-> << >>]

\* no processHeader call under study
ScanIdle ==
  [stage |-> "idle", queue |-> << >>, header |-> NoHeader, clock |-> 0,
   storage |-> [k \in {lastBlockKey} |-> [has |-> FALSE, val |-> << >>]],
   drained |-> 0, start |-> -1, end |-> -1, from |-> -1, to |-> -1,
   queried |-> FALSE, queueAfter |-> << >>,
   storageAfter |-> [k \in {lastBlockKey} |-> [has |-> FALSE, val |-> << >>]]]

\* the three fetch tasks of sendRequest, in the order of their go statements
FetchTasks == <<"onChain", "buffered", "committed">>

FetchTaskSet == {FetchTasks[i] : i \in DOMAIN FetchTasks}

\* no sendRequest call under way: the WaitGroup at zero, no task started,
\* the three result variables not assigned and not read
JoinIdle ==
  [main |-> "idle", wg |-> 0, spawned |-> 0,
   task |-> [t \in FetchTaskSet |-> "none"],
   result |-> [t \in FetchTaskSet |-> "unset"],
   read |-> [t \in FetchTaskSet |-> "unread"]]

\* the log loop before a query result reaches it
DispatchIdle ==
  [stage |-> "idle", tables |-> abis, logs |-> << >>, calls |-> << >>]

\* a started Syncer with an open bridge DB, the header-processing task
\* waiting in its select, OnStop not called
CloseIdle ==
  [stop |-> "none", task |-> "waiting", cursor |-> FALSE, headers |-> 0,
   accessed |-> << >>]

\* keys of the checkpoint keeper's store (keeper.go:22-24)
ACKCountKey == <<17>>
BufferCheckpointKey == <<18>>
HeaderBlockKey == <<19>>

\* highest ACK count the keeper is driven to
MaxAckCount == 2

\* GetHeaderKey(headerNumber): the prefix followed by the decimal digits
GetHeaderKey(headerNumber) == HeaderBlockKey \o Itoa(headerNumber)

\* header indexes AddCheckpoint is called with
HeaderIndexes == { a * ChildBlockInterval : a \in 0..MaxAckCount }

KeeperKeys ==
  {ACKCountKey, BufferCheckpointKey} \cup { GetHeaderKey(n) : n \in HeaderIndexes }

\* what the callers of the keeper stored under a key: nothing, or a header
NoCheckpoint == [found |-> FALSE, header |-> [start |-> 0, end |-> 0]]

Stored(h) == [found |-> TRUE, header |-> h]

\* the keeper on an empty store, with what its callers did so far: no
\* header set in the buffer, none added, no ACK counted
KeeperIdle ==
  [store |-> [k \in KeeperKeys |-> [has |-> FALSE, val |-> << >>]],
   buffered |-> NoCheckpoint,
   added |-> [n \in HeaderIndexes |-> NoCheckpoint],
   acks |-> 0]

\* no GetBlockWithClient call under way, the chain at its genesis
BlockWaitIdle ==
  [stage |-> "idle", height |-> 0, chain |-> 0,
   result |-> [kind |-> "none", height |-> 0]]

\* no log loop run, no OnStop race, an empty keeper store and no block query
LaterIdle ==
  /\ logDispatch = DispatchIdle
  /\ dbClose = CloseIdle
  /\ keeper = KeeperIdle
  /\ blockWait = BlockWaitIdle

Init ==
  /\ InitSyncer
  /\ ck = CkIdle
  /\ spanSvc = SpanIdle
  /\ headerSource = SourceIdle
  /\ scan = ScanIdle
  /\ join = JoinIdle
  /\ LaterIdle

\* a header arrives; a storage read can fail only on a stored key, and a
\* crash before the first dispatch is the same with or without the RPC error
Arrive ==
  \E num \in 1..MaxBlock, time \in 0..MaxTime, hasErr, getErr, filterErr \in BOOLEAN,
     crashAt \in CrashPoints :
    /\ (hasErr \/ getErr) => storage[lastBlockKey].has
    /\ filterErr => crashAt = -1
    /\ ProcessHeader(num, time, hasErr, getErr, filterErr, crashAt)

\* header arrivals without storage, RPC or process failures
ArriveNoFault ==
  \E num \in 1..MaxBlock, time \in 0..MaxTime :
    ProcessHeader(num, time, FALSE, FALSE, FALSE, -1)

Next == Arrive \/ Tick \/ Restart

Spec == Init /\ [][Next]_vars

NextArrivals == ArriveNoFault \/ Tick \/ Restart

SpecArrivals == Init /\ [][NextArrivals]_vars

\* ------------------------------------------------ nextExpectedCheckpoint
\* a uint64 result
U64(x) == x % (2 ^ WordBits)

\* ExpectedRange without the cap on expectedDiff
ExpectedRangeNoCap(endBlock, latestChildBlock, avg, max) ==
  LET start == IF endBlock > 0 THEN U64(endBlock + 1) ELSE endBlock
      diff == U64(latestChildBlock - start + 1)
      d0 == U64(diff - (diff % avg))
      d1 == IF d0 > 0 THEN U64(d0 - 1) ELSE d0
      end == IF diff > 0 THEN U64(d1 + start) ELSE 0
  IN [start |-> start, end |-> end, diff |-> diff]

\* ExpectedRange without the step back by one from a positive expectedDiff
ExpectedRangeNoStepBack(endBlock, latestChildBlock, avg, max) ==
  LET start == IF endBlock > 0 THEN U64(endBlock + 1) ELSE endBlock
      diff == U64(latestChildBlock - start + 1)
      d1 == U64(diff - (diff % avg))
      expectedDiff == IF d1 > U64(max - 1) THEN U64(max - 1) ELSE d1
      end == IF diff > 0 THEN U64(expectedDiff + start) ELSE 0
  IN [start |-> start, end |-> end, diff |-> diff]

\* lines 298-319: start and end from the on-chain end and the latest child
\* block, in unsigned arithmetic
ExpectedRange(endBlock, latestChildBlock, avg, max) ==
  LET start == IF endBlock > 0 THEN U64(endBlock + 1) ELSE endBlock
      diff == U64(latestChildBlock - start + 1)
      d0 == U64(diff - (diff % avg))
      d1 == IF d0 > 0 THEN U64(d0 - 1) ELSE d0
      expectedDiff == IF d1 > U64(max - 1) THEN U64(max - 1) ELSE d1
      end == IF diff > 0 THEN U64(expectedDiff + start) ELSE 0
  IN [start |-> start, end |-> end, diff |-> diff]

\* isForcePushNeeded without the comparison of the checkpoint's age
isForcePushNeededAnyAge(start, end, diff, latestChildBlock, lastCheckpointTime, currentTime, avg, max) ==
  LET fire == end = 0 \/ end = start \/ (0 < diff /\ diff < avg)
  IN [start |-> start, end |-> IF fire THEN latestChildBlock ELSE end,
      updated |-> fire]

\* isForcePushNeeded reporting the update and leaving end as it was
isForcePushNeededKeepsEnd(start, end, diff, latestChildBlock, lastCheckpointTime, currentTime, avg, max) ==
  LET defaultForcePushInterval == U64(max * 2)
      fire == /\ (end = 0 \/ end = start \/ (0 < diff /\ diff < avg))
              /\ currentTime - lastCheckpointTime > defaultForcePushInterval
  IN [start |-> start, end |-> end, updated |-> fire]

\* isForcePushNeeded(start, end, diff, latestChildBlock, lastCheckpointTime)
\* with the clock it reads and the configuration
isForcePushNeeded(start, end, diff, latestChildBlock, lastCheckpointTime, currentTime, avg, max) ==
  LET defaultForcePushInterval == U64(max * 2)
      fire == /\ (end = 0 \/ end = start \/ (0 < diff /\ diff < avg))
              /\ currentTime - lastCheckpointTime > defaultForcePushInterval
  IN [start |-> start, end |-> IF fire THEN latestChildBlock ELSE end,
      updated |-> fire]

\* nextExpectedCheckpoint(latestChildBlock) once fetchCheckpointFromContract
\* returned {EndBlock, TimeStamp}
nextExpectedCheckpoint(endBlock, timeStamp, latestChildBlock, currentTime, avg, max) ==
  LET r == ExpectedRange(endBlock, latestChildBlock, avg, max)
      f == isForcePushNeeded(r.start, r.end, r.diff, latestChildBlock,
                             timeStamp, currentTime, avg, max)
  IN [start |-> f.start, end |-> f.end, diff |-> r.diff, forced |-> f.updated,
      currentHeaderBlock |-> "nil"]

\* the on-chain head, the child chain and the configuration of one call
InitCkpt ==
  /\ InitSyncer
  /\ spanSvc = SpanIdle
  /\ headerSource = SourceIdle
  /\ scan = ScanIdle
  /\ join = JoinIdle
  /\ LaterIdle
  /\ me.id = 1
  /\ \E e \in 0..MaxChild, l \in 0..MaxChild, t \in 0..MaxStamp,
        c \in 0..MaxCkNow, a \in 1..MaxAvgLength, m \in 1..MaxMaxLength :
       /\ a <= m
       /\ ck = [CkIdle EXCEPT !.stage = "input", !.endBlock = e,
                              !.timeStamp = t, !.latestChildBlock = l,
                              !.avg = a, !.max = m, !.clock = c]

\* the call of nextExpectedCheckpoint made by sendRequest; fetchErr: the
\* contract call of fetchCheckpointFromContract fails and nil is returned
NextExpectedCheckpoint(fetchErr) ==
  /\ ck.stage = "input"
  /\ IF fetchErr
     THEN ck' = [ck EXCEPT !.stage = "failed"]
     ELSE LET r == nextExpectedCheckpoint(ck.endBlock, ck.timeStamp,
                                          ck.latestChildBlock, ck.clock,
                                          ck.avg, ck.max)
          IN ck' = [ck EXCEPT !.stage = "done", !.start = r.start,
                              !.end = r.end, !.diff = r.diff,
                              !.forced = r.forced,
                              !.currentHeaderBlock = r.currentHeaderBlock]
  /\ UNCHANGED <<syncerVars, spanSvc, headerSource, scan, join, laterVars>>

\* determineAction(probableNextCheckpoint, bufferedCheckpont,
\* latestCommittedCheckpoint); its body names the first argument
\* lastContractCheckpoint and the third lastHeimdallCheckpoint.  txErr: helper
\* CreateTxBytes or SendTendermintRequest fails.  The result tells whether the
\* call panicked and what it handed to SendTendermintRequest.
determineAction(lastContractCheckpoint, bufferedCheckpoint, lastHeimdallCheckpoint, txErr) ==
  IF U64(lastHeimdallCheckpoint.end + 1) = lastContractCheckpoint.start
  THEN \* ACK branch: big.Int Sub on currentHeaderBlock
       IF lastContractCheckpoint.currentHeaderBlock = "nil"
       THEN [panic |-> TRUE, msgs |-> << >>]
       ELSE IF txErr THEN [panic |-> FALSE, msgs |-> << >>]
       ELSE [panic |-> FALSE,
             msgs |-> << [type |-> "CheckpointAck",
                          headerNumber |->
                            lastContractCheckpoint.currentHeaderBlock
                              - ChildBlockInterval] >>]
  ELSE \* start and end are read and the function returns
       [panic |-> FALSE, msgs |-> << >>]

\* sendRequest after wg.Wait(): the three results are dereferenced and handed
\* to determineAction; a fetch that failed left a nil pointer
DetermineAction(bufferedErr, committedErr, committedEnd, txErr) ==
  /\ ck.stage \in {"done", "failed"}
  /\ IF ck.stage = "failed" \/ bufferedErr \/ committedErr
     THEN ck' = [ck EXCEPT !.stage = "decided", !.decision = "nilDereference"]
     ELSE LET r == determineAction(
                     [start |-> ck.start, end |-> ck.end,
                      currentHeaderBlock |-> ck.currentHeaderBlock],
                     [start |-> 0, end |-> 0],
                     [start |-> 0, end |-> committedEnd], txErr)
          IN ck' = [ck EXCEPT !.stage = "decided",
                              !.committedEnd = committedEnd,
                              !.decision = IF r.panic THEN "panic"
                                           ELSE "returned",
                              !.submitted = r.msgs]
  /\ UNCHANGED <<syncerVars, spanSvc, headerSource, scan, join, laterVars>>

NextCkpt ==
  \/ \E fetchErr \in BOOLEAN : NextExpectedCheckpoint(fetchErr)
  \/ \E bufferedErr, committedErr, txErr \in BOOLEAN,
        committedEnd \in 0..MaxChild :
       /\ (bufferedErr \/ committedErr) => (committedEnd = 0 /\ ~txErr)
       /\ DetermineAction(bufferedErr, committedErr, committedEnd, txErr)

SpecCkpt == InitCkpt /\ [][NextCkpt]_vars

\* ------------------------------------------------------------ SpanService
\* int64(x) of a uint64 x
Int64(x) == IF x >= 2 ^ (WordBits - 1) THEN x - 2 ^ WordBits ELSE x

\* block heights a span can carry: the lowest ones and the highest uint64
SpanBlocks == {0, 1, 2 ^ WordBits - 1}

\* heights GetCurrentChildBlock can return
ChildHeights == {0, 1}

\* StartBlock values the next-span-info endpoint can answer with
MsgStarts == {0, 1, 2}

\* what the span-proposer endpoint can name as signer: a validator's address
\* or the zero address of an answer without a signer
Signers == { v.address : v \in Validators } \cup {"zero"}

\* byte strings helper.GetSignedTxBytes can return for a ProposeSpan message
SignedTxs == { <<1, 2, 3, 4, 5>>, <<1, 2, 3, 4, 5, 6>>, <<6, 5, 4, 3, 2, 1>> }

\* tmTypes.Tx.Hash(): the SHA-256 of the bytes, free of collisions
TxHash(tx) == [sha256 |-> tx]

\* the consensus node's answer to a tx query by hash: the bytes it committed
TxByHash(hash) == CHOOSE tx \in SignedTxs : TxHash(tx) = hash

\* fetchLastSpan: the span id stored under lastSpanKey, 0 when the key is
\* absent or its value is not a number
fetchLastSpan(st) ==
  IF st[lastSpanKey].has
  THEN LET r == ParseUint(st[lastSpanKey].val)
       IN IF r.err THEN 0 ELSE r.val
  ELSE 0

\* isSpanProposer with the signer test left out
isSpanProposerAnySigner(query, signer, id) == query = "ok"

\* isSpanProposer: query is the outcome of the span-proposer REST call
\* ("fail": FetchFromAPI error, "undecodable": json.Unmarshal error, "ok")
isSpanProposer(query, signer, id) ==
  IF query = "fail" THEN FALSE
  ELSE IF query = "undecodable" THEN FALSE
  ELSE signer = GetAddress(id)

\* tx.Tx[4:] with the cut one byte early
TxBodyFromFourth(raw) == SubSeq(raw, 4, Len(raw))

\* tx.Tx[4:]
TxBody(raw) == SubSeq(raw, 5, Len(raw))

\* the result of a propose call that ends before fetchNextSpanDetails
Proposed(outcome) ==
  [outcome |-> outcome, lastSpanEnd |-> 0, requested |-> 0, msgStart |-> 0,
   tx |-> << >>]

\* ProposeNewSpan(start).  in.fail names the first call that fails:
\* "details" fetchNextSpanDetails, "sign" GetSignedTxBytes, "broadcast"
\* BroadcastTxBytes.  The message is the decoded answer of the endpoint;
\* start only enters the request, as strconv.Itoa(int(start)).
ProposeNewSpan(start, lastSpan, in) ==
  LET asked == [Proposed("detailsError") EXCEPT !.lastSpanEnd = lastSpan.end,
                                                !.requested = Int64(start)]
  IN IF in.fail = "details" THEN asked
     ELSE IF in.fail = "sign"
     THEN [asked EXCEPT !.outcome = "signError", !.msgStart = in.msgStart]
     ELSE IF in.fail = "broadcast"
     THEN [asked EXCEPT !.outcome = "broadcastError",
                        !.msgStart = in.msgStart, !.tx = in.tx]
     ELSE [asked EXCEPT !.outcome = "broadcast", !.msgStart = in.msgStart,
                        !.tx = in.tx]

\* propose proposing at currentBlock = lastSpan.StartBlock as well
proposeFromStartBlock(in) ==
  IF in.fail = "lastSpan" THEN Proposed("lastSpanError")
  ELSE IF in.fail = "childBlock" THEN Proposed("childBlockError")
  ELSE IF in.currentBlock >= Int64(in.lastSpan.start)
  THEN ProposeNewSpan(U64(in.lastSpan.end + 1), in.lastSpan, in)
  ELSE Proposed("notNeeded")

\* propose: "lastSpan" checkSpanStatus fails, "childBlock"
\* GetCurrentChildBlock fails
propose(in) ==
  IF in.fail = "lastSpan" THEN Proposed("lastSpanError")
  ELSE IF in.fail = "childBlock" THEN Proposed("childBlockError")
  ELSE IF in.currentBlock > Int64(in.lastSpan.start)
  THEN ProposeNewSpan(U64(in.lastSpan.end + 1), in.lastSpan, in)
  ELSE Proposed("notNeeded")

\* the answers one propose call can meet; what a call does not read is fixed
NoProposeInput ==
  [fail |-> "none", lastSpan |-> [start |-> 0, end |-> 0], currentBlock |-> 0,
   msgStart |-> 0, tx |-> << >>]

ProposeInputs ==
  { [NoProposeInput EXCEPT !.fail = f] : f \in {"lastSpan", "childBlock"} }
  \cup { [NoProposeInput EXCEPT !.lastSpan = [start |-> 1, end |-> 1]] }
  \cup { [NoProposeInput EXCEPT !.fail = "details",
                                !.lastSpan = [start |-> 1, end |-> 1],
                                !.currentBlock = 1] }
  \cup { [NoProposeInput EXCEPT !.fail = "details",
                                !.lastSpan = [start |-> s, end |-> e],
                                !.currentBlock = 1] :
           s \in {0, 2 ^ WordBits - 1}, e \in SpanBlocks }
  \cup { [NoProposeInput EXCEPT !.fail = "sign",
                                !.lastSpan = [start |-> 0, end |-> e],
                                !.currentBlock = 1, !.msgStart = m] :
           e \in SpanBlocks, m \in MsgStarts }
  \cup { [fail |-> f, lastSpan |-> [start |-> 0, end |-> e],
          currentBlock |-> 1, msgStart |-> m, tx |-> tx] :
           f \in {"broadcast", "none"}, e \in SpanBlocks, m \in MsgStarts,
           tx \in SignedTxs }
  \cup { [fail |-> "none", lastSpan |-> [start |-> 2 ^ WordBits - 1, end |-> e],
          currentBlock |-> 1, msgStart |-> U64(e + 1),
          tx |-> <<1, 2, 3, 4, 5>>] : e \in SpanBlocks }

\* a goroutine of the process panicked: the process is gone
SpanCrashed == \E i \in 1..MaxSpanTick : spanSvc.relays[i].panic

\* one tick of startPolling: isSpanProposer and, when it holds, propose up
\* to the start of SubscribeToTx
SpanTick(query, signer, in) ==
  /\ ~SpanCrashed
  /\ spanSvc.ticks < MaxSpanTick
  /\ LET n == spanSvc.ticks + 1
         started == isSpanProposer(query, signer, me)
         r == IF started THEN propose(in) ELSE Proposed("notStarted")
         sent_ == r.outcome \in {"broadcast", "broadcastError"}
     IN spanSvc' =
          [spanSvc EXCEPT
             !.ticks = n, !.query = query,
             !.signer = IF query = "ok" THEN signer ELSE "none",
             !.started = started, !.outcome = r.outcome,
             !.lastSpanStart =
               IF started /\ in.fail # "lastSpan" THEN in.lastSpan.start ELSE 0,
             !.currentBlock =
               IF started /\ in.fail \notin {"lastSpan", "childBlock"}
               THEN in.currentBlock ELSE 0,
             !.lastSpanEnd = r.lastSpanEnd, !.requested = r.requested,
             !.msgStart = r.msgStart,
             !.sends = IF sent_ THEN @ + 1 ELSE @,
             !.relays[n] =
               IF sent_
               THEN [NoRelay EXCEPT
                       !.broadcast = IF r.outcome = "broadcast" THEN "ok"
                                     ELSE "err",
                       !.tx = r.tx]
               ELSE NoRelay]
  /\ UNCHANGED <<syncerVars, ck, headerSource, scan, join, laterVars>>

\* what WaitForOneEvent(tx, httpClient) can return
WaitOutcomes == {"timeout", "tx", "other"}

\* SubscribeToTx(tx, start, end) of relay i.  wait is what WaitForOneEvent
\* returns: "timeout" an error after CommitTimeout, "tx" the EventDataTx of
\* the transaction, "other" event data of another type.
SubscribeToTx(i, wait) ==
  /\ ~SpanCrashed
  /\ spanSvc.relays[i].broadcast = "ok"
  /\ spanSvc.relays[i].event = "none"
  /\ spanSvc' = [spanSvc EXCEPT !.relays[i].event = wait]
  /\ UNCHANGED <<syncerVars, ck, headerSource, scan, join, laterVars>>

\* DispatchProposal with the error of fetchVotes ignored
dispatchProposalVotesIgnored(txHash, txBytes, votesErr, proofErr) ==
  IF proofErr
  THEN [votes |-> "ok", proof |-> "err", panic |-> TRUE, called |-> FALSE,
        body |-> << >>]
  ELSE [votes |-> IF votesErr THEN "err" ELSE "ok", proof |-> "ok",
        panic |-> FALSE, called |-> TRUE, body |-> TxBody(TxByHash(txHash))]

\* DispatchProposal(height, txHash, txBytes).  votesErr: fetchVotes fails.
\* proofErr: QueryTxWithProof fails and returns nil; its error is not read
\* and tx.Tx is evaluated on the nil pointer.  The body handed to CommitSpan
\* is cut from the node's answer, not from txBytes.
dispatchProposal(txHash, txBytes, votesErr, proofErr) ==
  IF votesErr
  THEN [votes |-> "err", proof |-> "none", panic |-> FALSE, called |-> FALSE,
        body |-> << >>]
  ELSE IF proofErr
  THEN [votes |-> "ok", proof |-> "err", panic |-> TRUE, called |-> FALSE,
        body |-> << >>]
  ELSE LET raw == TxByHash(txHash)
       IN IF Len(raw) < 4
          THEN [votes |-> "ok", proof |-> "ok", panic |-> TRUE,
                called |-> FALSE, body |-> << >>]
          ELSE [votes |-> "ok", proof |-> "ok", panic |-> FALSE,
                called |-> TRUE, body |-> TxBody(raw)]

\* the goroutine DispatchProposal started by SubscribeToTx of relay i on the
\* EventDataTx, whose Tx is the transaction waited for
DispatchProposal(i, votesErr, proofErr) ==
  /\ ~SpanCrashed
  /\ spanSvc.relays[i].event = "tx"
  /\ spanSvc.relays[i].votes = "none"
  /\ LET r == dispatchProposal(TxHash(spanSvc.relays[i].tx),
                               spanSvc.relays[i].tx, votesErr, proofErr)
     IN spanSvc' = [spanSvc EXCEPT !.relays[i].votes = r.votes,
                                   !.relays[i].proof = r.proof,
                                   !.relays[i].panic = r.panic,
                                   !.relays[i].called = r.called,
                                   !.relays[i].body = r.body]
  /\ UNCHANGED <<syncerVars, ck, headerSource, scan, join, laterVars>>

NextSpan ==
  \/ \E query \in {"fail", "undecodable"} :
       SpanTick(query, "zero", NoProposeInput)
  \/ \E signer \in Signers \ {GetAddress(me)} :
       SpanTick("ok", signer, NoProposeInput)
  \/ \E in \in ProposeInputs : SpanTick("ok", GetAddress(me), in)
  \/ \E i \in 1..MaxSpanTick, wait \in WaitOutcomes :
       SubscribeToTx(i, wait)
  \/ \E i \in 1..MaxSpanTick, votesErr, proofErr \in BOOLEAN :
       /\ votesErr => ~proofErr
       /\ DispatchProposal(i, votesErr, proofErr)

SpecSpan == Init /\ [][NextSpan]_vars

\* ------------------------------------------- Syncer: the source of headers
\* OnStart with the polling goroutine started whatever SubscribeNewHead says
onStartPollingToo(subErr) ==
  IF subErr
  THEN [subscription |-> "failed", subscribedTo |-> "none",
        polling |-> "active"]
  ELSE [subscription |-> "active", subscribedTo |-> "HeaderChannel",
        polling |-> "active"]

\* OnStart: the one call of SubscribeNewHead(ctx, syncer.HeaderChannel) and
\* the goroutine started on its result
onStart(subErr) ==
  IF subErr
  THEN [subscription |-> "failed", subscribedTo |-> "none",
        polling |-> "active"]
  ELSE [subscription |-> "active", subscribedTo |-> "HeaderChannel",
        polling |-> "none"]

\* Syncer.OnStart; subErr: SubscribeNewHead returns an error.  The header
\* process is started first, then the goroutine of the source.
OnStart(subErr) ==
  /\ headerSource.phase = "new"
  /\ LET r == onStart(subErr)
     IN headerSource' = [headerSource EXCEPT
                           !.phase = "running", !.attempts = @ + 1,
                           !.headerProcess = "waiting",
                           !.subscription = r.subscription,
                           !.subscribedTo = r.subscribedTo,
                           !.polling = r.polling]
  /\ UNCHANGED <<syncerVars, ck, spanSvc, scan, join, laterVars>>

\* the subscription delivers header num on the channel it was given; the
\* channel is unbuffered and holds what one blocked sender offers
SubscriptionHeader(num) ==
  /\ headerSource.subscription = "active"
  /\ headerSource.HeaderChannel = << >>
  /\ headerSource' = [headerSource EXCEPT
                        !.HeaderChannel =
                          << [source |-> "subscription", number |-> num] >>]
  /\ UNCHANGED <<syncerVars, ck, spanSvc, scan, join, laterVars>>

\* the polling goroutine stands in "syncer.HeaderChannel <- header"
PollerSending ==
  /\ headerSource.polling = "active"
  /\ headerSource.HeaderChannel # << >>

\* startPolling, case <-ticker.C; got: HeaderByNumber returned a header and
\* no error, and the header is sent on syncer.HeaderChannel.  The select
\* can take this case after the context was cancelled, too.
PollTick(got, num) ==
  /\ headerSource.polling = "active"
  /\ ~PollerSending
  /\ headerSource.polls < MaxPoll
  /\ headerSource' = [headerSource EXCEPT
                        !.polls = @ + 1,
                        !.polledTo = IF got THEN "HeaderChannel" ELSE @,
                        !.HeaderChannel =
                          IF got
                          THEN << [source |-> "polling", number |-> num] >>
                          ELSE @]
  /\ UNCHANGED <<syncerVars, ck, spanSvc, scan, join, laterVars>>

\* startHeaderProcess with "go syncer.processHeader(newHeader)"
ReceiveHeaderSpawning ==
  /\ headerSource.headerProcess = "waiting"
  /\ headerSource.HeaderChannel # << >>
  /\ headerSource.received < MaxReceived
  /\ headerSource' =
       [headerSource EXCEPT
          !.HeaderChannel = << >>, !.received = @ + 1,
          !.taken = Append(@, headerSource.HeaderChannel[1].number),
          !.executing = Append(@, [task |-> "spawned",
                                   number |->
                                     headerSource.HeaderChannel[1].number])]
  /\ UNCHANGED <<syncerVars, ck, spanSvc, scan, join, laterVars>>

\* startHeaderProcess, case newHeader := <-syncer.HeaderChannel: the header
\* process takes the offered header and calls processHeader itself.  The
\* select can take this case after the context was cancelled, too.
ReceiveHeader ==
  /\ headerSource.headerProcess = "waiting"
  /\ headerSource.HeaderChannel # << >>
  /\ headerSource.received < MaxReceived
  /\ headerSource' =
       [headerSource EXCEPT
          !.headerProcess = "processing",
          !.HeaderChannel = << >>, !.received = @ + 1,
          !.taken = Append(@, headerSource.HeaderChannel[1].number),
          !.executing = Append(@, [task |-> "headerProcess",
                                   number |->
                                     headerSource.HeaderChannel[1].number])]
  /\ UNCHANGED <<syncerVars, ck, spanSvc, scan, join, laterVars>>

\* the processHeader execution at position i returns
FinishHeader(i) ==
  /\ i \in 1..Len(headerSource.executing)
  /\ headerSource' =
       [headerSource EXCEPT
          !.headerProcess =
            IF headerSource.executing[i].task = "headerProcess"
            THEN "waiting" ELSE @,
          !.handled = Append(@, headerSource.executing[i].number),
          !.executing = SubSeq(@, 1, i - 1) \o SubSeq(@, i + 1, Len(@))]
  /\ UNCHANGED <<syncerVars, ck, spanSvc, scan, join, laterVars>>

\* OnStop with cancelHeaderProcess left out
onStopSourceOnly(src) ==
  [src EXCEPT !.phase = "stopped", !.ctxCancelled = TRUE]

\* Syncer.OnStop: cancelSubscription() and cancelHeaderProcess()
onStop(src) ==
  [src EXCEPT !.phase = "stopped", !.ctxCancelled = TRUE,
              !.headerCtxCancelled = TRUE]

\* startSubscription, case err := <-subscription.Err(): syncer.Stop(), which
\* runs OnStop on a running service, then cancelSubscription() and return
SubscriptionError ==
  /\ headerSource.subscription = "active"
  /\ headerSource' =
       [(IF headerSource.phase = "running" THEN onStop(headerSource)
         ELSE headerSource)
        EXCEPT !.subscription = "errored", !.ctxCancelled = TRUE]
  /\ UNCHANGED <<syncerVars, ck, spanSvc, scan, join, laterVars>>

\* Stop() called on the running service
OnStop ==
  /\ headerSource.phase = "running"
  /\ headerSource' = onStop(headerSource)
  /\ UNCHANGED <<syncerVars, ck, spanSvc, scan, join, laterVars>>

\* startSubscription, case <-ctx.Done(): return
WatcherExit ==
  /\ headerSource.subscription = "active"
  /\ headerSource.ctxCancelled
  /\ headerSource' = [headerSource EXCEPT !.subscription = "cancelled"]
  /\ UNCHANGED <<syncerVars, ck, spanSvc, scan, join, laterVars>>

\* startPolling, case <-ctx.Done(): ticker.Stop() and return; the select is
\* reached only when the goroutine is not standing in the channel send
PollerExit ==
  /\ headerSource.polling = "active"
  /\ headerSource.ctxCancelled
  /\ ~PollerSending
  /\ headerSource' = [headerSource EXCEPT !.polling = "stopped"]
  /\ UNCHANGED <<syncerVars, ck, spanSvc, scan, join, laterVars>>

\* startHeaderProcess, case <-ctx.Done(): return
HeaderProcessExit ==
  /\ headerSource.headerProcess = "waiting"
  /\ headerSource.headerCtxCancelled
  /\ headerSource' = [headerSource EXCEPT !.headerProcess = "stopped"]
  /\ UNCHANGED <<syncerVars, ck, spanSvc, scan, join, laterVars>>

\* the bridge process is started again: a new Syncer, a new run
SourceRestart ==
  /\ headerSource.phase = "stopped"
  /\ headerSource.runs < MaxRuns
  /\ headerSource' = [SourceIdle EXCEPT !.runs = headerSource.runs + 1]
  /\ UNCHANGED <<syncerVars, ck, spanSvc, scan, join, laterVars>>

\* the steps of the goroutines started by OnStart
SourceTasks ==
  \/ ReceiveHeader
  \/ \E i \in 1..MaxReceived : FinishHeader(i)
  \/ WatcherExit
  \/ PollerExit
  \/ HeaderProcessExit

NextSource ==
  \/ \E subErr \in BOOLEAN : OnStart(subErr)
  \/ \E num \in 1..MaxSrcHeader : SubscriptionHeader(num)
  \/ \E got \in BOOLEAN, num \in 1..MaxSrcHeader :
       /\ ~got => num = 1
       /\ PollTick(got, num)
  \/ SubscriptionError
  \/ OnStop
  \/ SourceRestart
  \/ SourceTasks

SpecSource == Init /\ [][NextSource]_vars

\* the Go scheduler runs every goroutine that can take a step: a select
\* with a ready case is left, a processHeader call returns
SpecSourceFair ==
  /\ SpecSource
  /\ WF_vars(ReceiveHeader)
  /\ WF_vars(\E i \in 1..MaxReceived : FinishHeader(i))
  /\ WF_vars(WatcherExit)
  /\ WF_vars(PollerExit)
  /\ WF_vars(HeaderProcessExit)

\* ------------------------------------------- processHeader on drawn inputs
\* the headers a drawn queue can hold
ScanHeaders == [number : 1..MaxScanBlock, time : 0..MaxScanTime]

\* the header queues a call can find
ScanQueues == UNION { [1..n -> ScanHeaders] : n \in 0..MaxScanQueue }

\* the bridge DB a call can find: no cursor, or the decimal number of a
\* header that an earlier call wrote
ScanStores ==
  { [k \in {lastBlockKey} |-> [has |-> FALSE, val |-> << >>]] }
  \cup { [k \in {lastBlockKey} |-> [has |-> TRUE, val |-> Itoa(c)]] :
           c \in 1..MaxScanBlock }

\* processHeader(newHeader) without failures of storage and RPC: the push,
\* the drain loop (lines 231-257), the range and the cursor write (259-290)
processHeader(q, newHeader, currentTime, st) ==
  LET q1 == Append(q, newHeader)
      n == ConfirmedPrefix(q1, currentTime)
      rest == SubSeq(q1, n + 1, Len(q1))
  IN IF n = 0
     THEN [drained |-> 0, start |-> -1, end |-> -1, from |-> -1, to |-> -1,
           queried |-> FALSE, queue |-> q1, storage |-> st]
     ELSE LET start == q1[1].number
              end == q1[n].number
              fromBlock == FromBlock(start, st[lastBlockKey].has,
                                     st[lastBlockKey].val)
              toBlock == end
          IN [drained |-> n, start |-> start, end |-> end,
              from |-> fromBlock, to |-> toBlock, queried |-> TRUE,
              queue |-> rest, storage |-> PutLastBlock(st, toBlock)]

\* the queue, the arriving header, the clock and the bridge DB of one call
InitScan ==
  /\ InitSyncer
  /\ me.id = 1
  /\ ck = CkIdle
  /\ spanSvc = SpanIdle
  /\ headerSource = SourceIdle
  /\ join = JoinIdle
  /\ LaterIdle
  /\ \E q \in ScanQueues, h \in ScanHeaders,
        c \in 0..(MaxScanTime + TxConfirmationTime), st \in ScanStores :
       scan = [ScanIdle EXCEPT !.stage = "input", !.queue = q, !.header = h,
                               !.clock = c, !.storage = st]

\* the call of processHeader on the drawn inputs
ScanCall ==
  /\ scan.stage = "input"
  /\ LET r == processHeader(scan.queue, scan.header, scan.clock, scan.storage)
     IN scan' = [scan EXCEPT !.stage = "done", !.drained = r.drained,
                             !.start = r.start, !.end = r.end,
                             !.from = r.from, !.to = r.to,
                             !.queried = r.queried, !.queueAfter = r.queue,
                             !.storageAfter = r.storage]
  /\ UNCHANGED <<syncerVars, ck, spanSvc, headerSource, join, laterVars>>

NextScan == ScanCall

SpecScan == InitScan /\ [][NextScan]_vars

\* ------------------------------------------- sendRequest and its three tasks
\* lines 226-231: the three result variables are declared nil and the
\* WaitGroup counter is raised to the number of tasks before any is started
SendRequest ==
  /\ join.main = "idle"
  /\ join' = [JoinIdle EXCEPT !.main = "spawning", !.wg = Len(FetchTasks)]
  /\ UNCHANGED <<syncerVars, ck, spanSvc, headerSource, scan, laterVars>>

\* lines 234, 240, 246: the next go statement starts its task; after the
\* third the caller stands at wg.Wait()
Go ==
  /\ join.main = "spawning"
  /\ LET n == join.spawned + 1
     IN join' = [join EXCEPT
                   !.spawned = n,
                   !.task[FetchTasks[n]] = "running",
                   !.main = IF n = Len(FetchTasks) THEN "waiting" ELSE "spawning"]
  /\ UNCHANGED <<syncerVars, ck, spanSvc, headerSource, scan, laterVars>>

\* lines 236, 242, 248: a task assigns its result variable, the fetched state
\* or nil when the fetch failed (the error is dropped)
Fetch(t, ok) ==
  /\ join.task[t] = "running"
  /\ join' = [join EXCEPT !.task[t] = "assigned",
                          !.result[t] = IF ok THEN "state" ELSE "nil"]
  /\ UNCHANGED <<syncerVars, ck, spanSvc, headerSource, scan, laterVars>>

\* lines 235, 241, 247: the deferred wg.Done() runs when the task returns
Done(t) ==
  /\ join.task[t] = "assigned"
  /\ join' = [join EXCEPT !.task[t] = "done", !.wg = join.wg - 1]
  /\ UNCHANGED <<syncerVars, ck, spanSvc, headerSource, scan, laterVars>>

\* wg.Wait() returning as soon as one task has called Done
WaitFirstDone ==
  /\ join.main = "waiting"
  /\ join.wg < Len(FetchTasks)
  /\ join' = [join EXCEPT !.main = "joined"]
  /\ UNCHANGED <<syncerVars, ck, spanSvc, headerSource, scan, laterVars>>

\* line 252: wg.Wait() returns when the counter is zero
Wait ==
  /\ join.main = "waiting"
  /\ join.wg = 0
  /\ join' = [join EXCEPT !.main = "joined"]
  /\ UNCHANGED <<syncerVars, ck, spanSvc, headerSource, scan, laterVars>>

\* line 254: the three result variables are read and dereferenced for the
\* arguments of determineAction; a nil one panics before the call starts
DetermineActionCall ==
  /\ join.main = "joined"
  /\ join' = [join EXCEPT
                !.read = [t \in FetchTaskSet |->
                            IF join.task[t] = "done" THEN "afterDone"
                            ELSE "beforeDone"],
                !.main = IF \A t \in FetchTaskSet : join.result[t] = "state"
                         THEN "determineAction" ELSE "panicked"]
  /\ UNCHANGED <<syncerVars, ck, spanSvc, headerSource, scan, laterVars>>

\* lines 255-259: determineAction returns and sendRequest with it; the
\* next header starts a new call with a new WaitGroup
SendRequestReturn ==
  /\ join.main = "determineAction"
  /\ \A t \in FetchTaskSet : join.task[t] = "done"
  /\ join' = JoinIdle
  /\ UNCHANGED <<syncerVars, ck, spanSvc, headerSource, scan, laterVars>>

NextJoin ==
  \/ SendRequest
  \/ Go
  \/ \E t \in FetchTaskSet, ok \in BOOLEAN : Fetch(t, ok)
  \/ \E t \in FetchTaskSet : Done(t)
  \/ Wait
  \/ DetermineActionCall
  \/ SendRequestReturn

SpecJoin == Init /\ [][NextJoin]_vars

\* --------------------------------------- the log loop on drawn query results
MaxLogs == 2

\* the event names with a case in the switch on selectedEvent.Name
HandledNames ==
  {"NewHeaderBlock", "UnstakeInit", "StakeUpdate", "SignerChange", "ReStaked",
   "Jailed", "StateSynced", "TopUpFee"}

\* event tables syncer.abis can hold, in the order RootChain, StateSender,
\* StakingInfo: the tables of the bindings, and tables in which two
\* contracts declare an event of the same signature
AbiTables ==
  { abis,
    << RootChainABI \cup {"StateSynced"}, StateSenderABI, StakingInfoABI >>,
    << RootChainABI, StateSenderABI \cup {"TopUpFee"},
       StakingInfoABI \cup {"NewHeaderBlock"} >>,
    << RootChainABI \cup {"Staked"}, StateSenderABI \cup {"Staked"},
       StakingInfoABI >> }

\* first topic and outcome of the ABI unpack of the logs a query can return
LogKinds ==
  { <<"NewHeaderBlock", TRUE>>, <<"NewHeaderBlock", FALSE>>,
    <<"StateSynced", TRUE>>, <<"TopUpFee", FALSE>>, <<"Staked", TRUE>>,
    <<"Withdraw", TRUE>> }

\* the results of FilterLogs handed to the loop: up to MaxLogs logs of one
\* block, in log-index order
LogLists ==
  UNION { [1..n -> LogKinds] : n \in 0..MaxLogs }

LogAt(kinds, i) == Log(1, i - 1, kinds[i][1], kinds[i][2], i, "none")

RECURSIVE CallsFromNoBreak(_, _, _, _, _)
\* the loop over syncer.abis without the break after the switch
CallsFromNoBreak(k, i, vLog, tables, id) ==
  IF k > Len(tables) THEN << >>
  ELSE LET name == EventByID(tables[k], vLog.topic)
           here == IF name \in HandledNames
                   THEN << [log |-> i, abi |-> k, name |-> name,
                            msgs |-> HandleEvent(name, vLog, id)] >>
                   ELSE << >>
       IN here \o CallsFromNoBreak(k + 1, i, vLog, tables, id)

RECURSIVE CallsFrom(_, _, _, _, _)
\* the loop over syncer.abis from position k for log i: the handler calls it
\* makes, each with the ABI handed to the handler and the messages the
\* handler broadcasts; the first ABI that knows the topic ends the loop
CallsFrom(k, i, vLog, tables, id) ==
  IF k > Len(tables) THEN << >>
  ELSE LET name == EventByID(tables[k], vLog.topic)
       IN IF name # "nil"
          THEN (IF name \in HandledNames
                THEN << [log |-> i, abi |-> k, name |-> name,
                         msgs |-> HandleEvent(name, vLog, id)] >>
                ELSE << >>)
          ELSE CallsFrom(k + 1, i, vLog, tables, id)

RECURSIVE LogLoopUntilDecodeError(_, _, _, _)
\* the loop over the logs leaving at the first log whose unpack fails
LogLoopUntilDecodeError(i, kinds, tables, id) ==
  IF i > Len(kinds) THEN << >>
  ELSE LET c == CallsFrom(1, i, LogAt(kinds, i), tables, id)
       IN IF c # << >> /\ ~kinds[i][2] THEN c
          ELSE c \o LogLoopUntilDecodeError(i + 1, kinds, tables, id)

RECURSIVE LogLoop(_, _, _, _)
\* "for _, vLog := range logs" from log i on
LogLoop(i, kinds, tables, id) ==
  IF i > Len(kinds) THEN << >>
  ELSE CallsFrom(1, i, LogAt(kinds, i), tables, id)
         \o LogLoop(i + 1, kinds, tables, id)

\* the event tables of the process and the logs of one query result
InitDispatch ==
  /\ InitSyncer
  /\ me.id = 1
  /\ ck = CkIdle
  /\ spanSvc = SpanIdle
  /\ headerSource = SourceIdle
  /\ scan = ScanIdle
  /\ join = JoinIdle
  /\ dbClose = CloseIdle
  /\ keeper = KeeperIdle
  /\ blockWait = BlockWaitIdle
  /\ \E tables \in AbiTables, kinds \in LogLists :
       logDispatch = [DispatchIdle EXCEPT !.stage = "queried",
                                          !.tables = tables, !.logs = kinds]

\* lines 317-349 on the logs of the query result
DispatchRun ==
  /\ logDispatch.stage = "queried"
  /\ logDispatch' =
       [logDispatch EXCEPT
          !.stage = "done",
          !.calls = LogLoop(1, logDispatch.logs, logDispatch.tables, me)]
  /\ UNCHANGED <<syncerVars, ck, spanSvc, headerSource, scan, join, dbClose,
                 keeper, blockWait>>

NextDispatch == DispatchRun

SpecDispatch == InitDispatch /\ [][NextDispatch]_vars

\* ------------------------------- processHeader while Syncer.OnStop is running
MaxCloseHeaders == 2

\* one access of the header-processing task to the bridge DB: the operation
\* and whether closeBridgeDBInstance had run before it
StoreAccess(op) == [op |-> op, closed |-> dbClose.stop # "none"]

\* startHeaderProcess takes a header from HeaderChannel and processHeader
\* runs up to its first storage access; an unconfirmed header returns at
\* "start == nil".  The select can take the channel case until the task has
\* seen ctx.Done().
CloseReceive(confirmed) ==
  /\ dbClose.task = "waiting"
  /\ dbClose.headers < MaxCloseHeaders
  /\ dbClose' = [dbClose EXCEPT
                   !.headers = @ + 1,
                   !.task = IF confirmed THEN "drained" ELSE "waiting"]
  /\ UNCHANGED <<syncerVars, ck, spanSvc, headerSource, scan, join,
                 logDispatch, keeper, blockWait>>

\* line 266: storageClient.Has(lastBlockKey); a closed DB answers with an
\* error, which is dropped, and false
CloseHas ==
  /\ dbClose.task = "drained"
  /\ dbClose' = [dbClose EXCEPT
                   !.accessed = Append(@, StoreAccess("Has")),
                   !.task = IF dbClose.cursor /\ dbClose.stop = "none"
                            THEN "hasLastBlock" ELSE "noLastBlock"]
  /\ UNCHANGED <<syncerVars, ck, spanSvc, headerSource, scan, join,
                 logDispatch, keeper, blockWait>>

\* lines 268-272: storageClient.Get(lastBlockKey); on a closed DB it fails
\* and processHeader returns
CloseGet ==
  /\ dbClose.task = "hasLastBlock"
  /\ dbClose' = [dbClose EXCEPT
                   !.accessed = Append(@, StoreAccess("Get")),
                   !.task = IF dbClose.stop = "none" THEN "noLastBlock"
                            ELSE "waiting"]
  /\ UNCHANGED <<syncerVars, ck, spanSvc, headerSource, scan, join,
                 logDispatch, keeper, blockWait>>

\* line 291: storageClient.Put(lastBlockKey, toBlock); its error is not read
ClosePut ==
  /\ dbClose.task = "noLastBlock"
  /\ dbClose' = [dbClose EXCEPT
                   !.accessed = Append(@, StoreAccess("Put")),
                   !.cursor = IF dbClose.stop = "none" THEN TRUE ELSE @,
                   !.task = "querying"]
  /\ UNCHANGED <<syncerVars, ck, spanSvc, headerSource, scan, join,
                 logDispatch, keeper, blockWait>>

\* lines 296-349: FilterLogs and the log loop, then back to the select
CloseQuery ==
  /\ dbClose.task = "querying"
  /\ dbClose' = [dbClose EXCEPT !.task = "waiting"]
  /\ UNCHANGED <<syncerVars, ck, spanSvc, headerSource, scan, join,
                 logDispatch, keeper, blockWait>>

\* OnStop, line 177: closeBridgeDBInstance()
StopCloseDB ==
  /\ dbClose.stop = "none"
  /\ dbClose' = [dbClose EXCEPT !.stop = "dbClosed"]
  /\ UNCHANGED <<syncerVars, ck, spanSvc, headerSource, scan, join,
                 logDispatch, keeper, blockWait>>

\* OnStop, line 180: syncer.cancelSubscription()
StopCancelSubscription ==
  /\ dbClose.stop = "dbClosed"
  /\ dbClose' = [dbClose EXCEPT !.stop = "subscriptionCancelled"]
  /\ UNCHANGED <<syncerVars, ck, spanSvc, headerSource, scan, join,
                 logDispatch, keeper, blockWait>>

\* OnStop, line 183: syncer.cancelHeaderProcess(); OnStop returns without
\* waiting for the task
StopCancelHeaderProcess ==
  /\ dbClose.stop = "subscriptionCancelled"
  /\ dbClose' = [dbClose EXCEPT !.stop = "headerProcessCancelled"]
  /\ UNCHANGED <<syncerVars, ck, spanSvc, headerSource, scan, join,
                 logDispatch, keeper, blockWait>>

\* startHeaderProcess, case <-ctx.Done(): return
CloseTaskExit ==
  /\ dbClose.task = "waiting"
  /\ dbClose.stop = "headerProcessCancelled"
  /\ dbClose' = [dbClose EXCEPT !.task = "exited"]
  /\ UNCHANGED <<syncerVars, ck, spanSvc, headerSource, scan, join,
                 logDispatch, keeper, blockWait>>

NextClose ==
  \/ \E confirmed \in BOOLEAN : CloseReceive(confirmed)
  \/ CloseHas
  \/ CloseGet
  \/ ClosePut
  \/ CloseQuery
  \/ StopCloseDB
  \/ StopCancelSubscription
  \/ StopCancelHeaderProcess
  \/ CloseTaskExit

SpecClose == Init /\ [][NextClose]_vars

\* ------------------------------------------------------ checkpoint keeper
\* the checkpoint headers handed to the keeper: start and end block
CheckpointHeaders ==
  { [start |-> 0, end |-> 0], [start |-> 0, end |-> 1], [start |-> 2, end |-> 3] }

\* cdc.MarshalBinaryBare(headerBlock): the fields in order, each as its
\* field number and value, a zero field left out
MarshalBinaryBare(h) ==
  (IF h.start # 0 THEN << <<1, h.start>> >> ELSE << >>)
    \o (IF h.end # 0 THEN << <<2, h.end>> >> ELSE << >>)

\* cdc.UnmarshalBinaryBare(bytes, &header): the fields found, zero for the
\* others
UnmarshalBinaryBare(bz) ==
  LET field(f) == IF \E i \in 1..Len(bz) : bz[i][1] = f
                  THEN (CHOOSE x \in {bz[i] : i \in 1..Len(bz)} : x[1] = f)[2]
                  ELSE 0
  IN [start |-> field(1), end |-> field(2)]

\* addCheckpoint keeping a value the key already holds
addCheckpointKeepsOld(store, key, headerBlock) ==
  IF store[key].has THEN store
  ELSE [store EXCEPT ![key] = [has |-> TRUE, val |-> MarshalBinaryBare(headerBlock)]]

\* addCheckpoint(ctx, key, headerBlock): store.Set(key, marshalled header)
addCheckpoint(store, key, headerBlock) ==
  [store EXCEPT ![key] = [has |-> TRUE, val |-> MarshalBinaryBare(headerBlock)]]

\* GetACKCount reading an absent count as 1
GetACKCountFromOne(store) ==
  IF store[ACKCountKey].has
  THEN LET r == ParseUint(store[ACKCountKey].val)
       IN IF r.err THEN 1 ELSE r.val
  ELSE 1

\* GetACKCount: the stored decimal count, 0 when absent or not a number
GetACKCount(store) ==
  IF store[ACKCountKey].has
  THEN LET r == ParseUint(store[ACKCountKey].val)
       IN IF r.err THEN 0 ELSE r.val
  ELSE 0

\* GetCheckpointFromBuffer: the header under BufferCheckpointKey, or an error
GetCheckpointFromBuffer(store) ==
  IF store[BufferCheckpointKey].has
  THEN [err |-> "none",
        header |-> UnmarshalBinaryBare(store[BufferCheckpointKey].val)]
  ELSE [err |-> "No checkpoint found in buffer",
        header |-> [start |-> 0, end |-> 0]]

\* GetLastCheckpoint: the header under ChildBlockInterval * acksCount
GetLastCheckpoint(store) ==
  LET acksCount == GetACKCount(store)
      lastCheckpointKey == U64(ChildBlockInterval * acksCount)
      headerKey == GetHeaderKey(lastCheckpointKey)
  IN IF acksCount >= 0 /\ headerKey \in KeeperKeys /\ store[headerKey].has
     THEN [err |-> "none", header |-> UnmarshalBinaryBare(store[headerKey].val)]
     ELSE [err |-> "ErrNoCheckpointFound", header |-> [start |-> 0, end |-> 0]]

AddCheckpoint(headerBlockNumber, headerBlock) ==
  /\ keeper' = [keeper EXCEPT
                  !.store = addCheckpoint(@, GetHeaderKey(headerBlockNumber),
                                          headerBlock),
                  !.added[headerBlockNumber] = Stored(headerBlock)]
  /\ UNCHANGED <<syncerVars, ck, spanSvc, headerSource, scan, join,
                 logDispatch, dbClose, blockWait>>

SetCheckpointBuffer(headerBlock) ==
  /\ keeper' = [keeper EXCEPT
                  !.store = addCheckpoint(@, BufferCheckpointKey, headerBlock),
                  !.buffered = Stored(headerBlock)]
  /\ UNCHANGED <<syncerVars, ck, spanSvc, headerSource, scan, join,
                 logDispatch, dbClose, blockWait>>

\* store.Delete(BufferCheckpointKey)
FlushCheckpointBuffer ==
  /\ keeper' = [keeper EXCEPT
                  !.store[BufferCheckpointKey] = [has |-> FALSE, val |-> << >>],
                  !.buffered = NoCheckpoint]
  /\ UNCHANGED <<syncerVars, ck, spanSvc, headerSource, scan, join,
                 logDispatch, dbClose, blockWait>>

\* store.Set(ACKCountKey, FormatUint(value))
UpdateACKCountWithValue(value) ==
  /\ keeper' = [keeper EXCEPT
                  !.store[ACKCountKey] = [has |-> TRUE, val |-> Itoa(value)],
                  !.acks = value]
  /\ UNCHANGED <<syncerVars, ck, spanSvc, headerSource, scan, join,
                 logDispatch, dbClose, blockWait>>

\* store.Set(ACKCountKey, FormatUint(GetACKCount() + 1))
UpdateACKCount ==
  /\ GetACKCount(keeper.store) < MaxAckCount
  /\ keeper' = [keeper EXCEPT
                  !.store[ACKCountKey] =
                    [has |-> TRUE,
                     val |-> Itoa(U64(GetACKCount(keeper.store) + 1))],
                  !.acks = @ + 1]
  /\ UNCHANGED <<syncerVars, ck, spanSvc, headerSource, scan, join,
                 logDispatch, dbClose, blockWait>>

NextKeeper ==
  \/ \E n \in HeaderIndexes, h \in CheckpointHeaders : AddCheckpoint(n, h)
  \/ \E h \in CheckpointHeaders : SetCheckpointBuffer(h)
  \/ FlushCheckpointBuffer
  \/ \E value \in 0..MaxAckCount : UpdateACKCountWithValue(value)
  \/ UpdateACKCount

SpecKeeper == Init /\ [][NextKeeper]_vars

\* ------------------------------------------------------ GetBlockWithClient
MaxChainHeight == 3

\* what the call returned: a block of some height or an error
BlockResult(kind, height) == [kind |-> kind, height |-> height]

\* the consensus chain commits its next block; a call waiting on the
\* new-block subscription receives the EventDataNewBlock and returns t.Block
NewBlock ==
  /\ blockWait.chain < MaxChainHeight
  /\ blockWait' =
       [blockWait EXCEPT
          !.chain = @ + 1,
          !.stage = IF @ = "waiting" THEN "returned" ELSE @,
          !.result = IF blockWait.stage = "waiting"
                     THEN BlockResult("block", blockWait.chain + 1) ELSE @]
  /\ UNCHANGED <<syncerVars, ck, spanSvc, headerSource, scan, join,
                 logDispatch, dbClose, keeper>>

\* lines 209-233: client.Block(&height) and, when it gives no block,
\* client.Subscribe.  blockErr: the RPC fails although the block exists;
\* subscribeErr: Subscribe fails.
GetBlockWithClient(height, blockErr, subscribeErr) ==
  /\ blockWait.stage = "idle"
  /\ blockWait' =
       [blockWait EXCEPT
          !.height = height,
          !.stage = IF height <= blockWait.chain /\ ~blockErr THEN "returned"
                    ELSE IF subscribeErr THEN "returned" ELSE "waiting",
          !.result = IF height <= blockWait.chain /\ ~blockErr
                     THEN BlockResult("block", height)
                     ELSE IF subscribeErr
                     THEN BlockResult("failed to subscribe", 0)
                     ELSE BlockResult("none", 0)]
  /\ UNCHANGED <<syncerVars, ck, spanSvc, headerSource, scan, join,
                 logDispatch, dbClose, keeper>>

\* lines 240-241: an event whose data is not an EventDataNewBlock; the
\* error carries the text of the timeout
OtherEvent ==
  /\ blockWait.stage = "waiting"
  /\ blockWait' = [blockWait EXCEPT
                     !.stage = "returned",
                     !.result = BlockResult("other event", 0)]
  /\ UNCHANGED <<syncerVars, ck, spanSvc, headerSource, scan, join,
                 logDispatch, dbClose, keeper>>

\* lines 243-244: CommitTimeout elapses, case <-c.Done()
CommitTimeoutElapses ==
  /\ blockWait.stage = "waiting"
  /\ blockWait' = [blockWait EXCEPT
                     !.stage = "returned",
                     !.result = BlockResult("timed out waiting for event", 0)]
  /\ UNCHANGED <<syncerVars, ck, spanSvc, headerSource, scan, join,
                 logDispatch, dbClose, keeper>>

\* the caller takes the result; a later call starts afresh
BlockCallOver ==
  /\ blockWait.stage = "returned"
  /\ blockWait' = [BlockWaitIdle EXCEPT !.chain = blockWait.chain]
  /\ UNCHANGED <<syncerVars, ck, spanSvc, headerSource, scan, join,
                 logDispatch, dbClose, keeper>>

NextBlockWait ==
  \/ NewBlock
  \/ \E height \in 1..MaxChainHeight, blockErr, subscribeErr \in BOOLEAN :
       GetBlockWithClient(height, blockErr, subscribeErr)
  \/ OtherEvent
  \/ CommitTimeoutElapses
  \/ BlockCallOver

SpecBlockWait == Init /\ [][NextBlockWait]_vars

\* ======================================================== Syncer claims
Issued == last.outcome \in {"scanned", "filterError", "crash"}

\* the logs of the range the latest call queried
Scanned == Elems(FilterLogs(last.from, last.to))

Ungated == {"NewHeaderBlock", "StateSynced", "TopUpFee"}

Gated == {"UnstakeInit", "StakeUpdate", "SignerChange"}

\* positions of the messages of the latest call that carry the log's
\* (txHash, logIndex)
MsgsFor(L) ==
  { i \in 1..Len(last.msgs) :
      last.msgs[i].txHash = L.tx /\ last.msgs[i].logIndex = L.idx }

\* C1: the persisted last-block cursor never decreases, whatever headers
\* arrive (an absent cursor counts as -1).
C1_CursorMonotone == [][Cursor(storage)' >= Cursor(storage)]_vars

\* C2: at-least-once dispatch: once the persisted cursor has moved over the
\* range [from, to] of a query, every decodable log of an ungated handled kind
\* in that range has had a BroadcastToHeimdall call, across header arrivals,
\* FilterLogs failures and crashes inside processHeader.
C2_AtLeastOnce ==
  Issued =>
    \A L \in AllLogs :
      (last.from <= L.block /\ L.block <= Cursor(storage)
         /\ L.topic \in Ungated /\ L.ok)
      => \E m \in sent : m.txHash = L.tx /\ m.logIndex = L.idx

\* C3: when FilterLogs fails, the cursor after processHeader equals the
\* cursor before it.
C3_FilterFailureKeepsCursor ==
  last.outcome = "filterError" => Cursor(storage) = last.before

\* C4: confirmation delay: the toBlock of every issued query is the number of
\* a header taken from the queue with time + txConfirmationTime <= the clock
\* read in that call, and every log the call dispatches lies at or below
\* that number.
C4_ConfirmationDelay ==
  Issued =>
    /\ last.confirmed.number = last.to
    /\ last.confirmed.time + TxConfirmationTime <= last.clock
    /\ \A m \in Elems(last.msgs) :
         \E L \in AllLogs :
           L.tx = m.txHash /\ L.idx = m.logIndex /\ L.block <= last.to

\* C4 witness: a query drained two headers and dispatched messages.
C4_Witness ==
  last.outcome = "scanned" /\ last.drained = 2 /\ Len(last.msgs) > 0

\* C5: within one run no height is covered by the ranges of two successful
\* FilterLogs queries.
C5_CoveredOnce == \A h \in DOMAIN covered : covered[h] # "more"

IsSubject(L, id) ==
  IF L.topic = "SignerChange" THEN L.signer = id.address ELSE L.arg = id.id

GatedType(topic) ==
  CASE topic = "UnstakeInit" -> "ValidatorExit"
    [] topic = "StakeUpdate" -> "StakeUpdate"
    [] topic = "SignerChange" -> "SignerUpdate"

\* C6: a decoded UnstakeInit, StakeUpdate or SignerChange log yields its
\* message (ValidatorExit, StakeUpdate, SignerUpdate) if and only if its
\* subject is the local validator.
C6_GateCorrectness ==
  last.outcome = "scanned" =>
    \A L \in Scanned :
      (L.topic \in Gated /\ L.ok) =>
        IF IsSubject(L, me)
        THEN /\ Cardinality(MsgsFor(L)) = 1
             /\ \A i \in MsgsFor(L) :
                  /\ last.msgs[i].type = GatedType(L.topic)
                  /\ last.msgs[i].arg = L.arg
        ELSE MsgsFor(L) = {}

\* C6 witness: one scan returned gated logs of all three kinds, some about the
\* local validator and some about another one.
C6_Witness ==
  /\ last.outcome = "scanned"
  /\ \A t \in Gated :
       /\ \E L \in Scanned : L.topic = t /\ L.ok /\ IsSubject(L, me)
       /\ \E L \in Scanned : L.topic = t /\ L.ok /\ ~IsSubject(L, me)

UngatedMsg(L, id) ==
  CASE L.topic = "NewHeaderBlock" ->
         Msg("CheckpointAck", GetFromAddress(id), L.arg, "none", L.tx, L.idx,
             "none")
    [] L.topic = "StateSynced" ->
         Msg("EventRecord", GetAddress(id), L.arg, "none", L.tx, L.idx,
             BorChainID)
    [] L.topic = "TopUpFee" ->
         Msg("Topup", GetFromAddress(id), L.arg, "none", L.tx, L.idx, "none")

\* C8: every decoded NewHeaderBlock, StateSynced and TopUpFee log of a scanned
\* range yields exactly one message, CheckpointAck(headerBlockId),
\* EventRecord(id, BorChainID) or Topup(validatorId), for every identity.
C8_UngatedExactlyOne ==
  last.outcome = "scanned" =>
    \A L \in Scanned :
      (L.topic \in Ungated /\ L.ok) =>
        /\ Cardinality(MsgsFor(L)) = 1
        /\ \A i \in MsgsFor(L) : last.msgs[i] = UngatedMsg(L, me)

\* C8 witness: one scan returned decoded logs of the three kinds, the TopUpFee
\* one about another validator than the local one.
C8_Witness ==
  /\ last.outcome = "scanned"
  /\ \A t \in Ungated : \E L \in Scanned : L.topic = t /\ L.ok
  /\ \E L \in Scanned : L.topic = "TopUpFee" /\ L.ok /\ L.arg # me.id

CkLength == ck.end - ck.start + 1

\* C10 as claimed: the produced range is at most MaxCheckpointLength long
\* and, when the force push did not fire, its length is a multiple of
\* AvgCheckpointLength or nothing was produced.
C10_BoundsAsClaimed ==
  ck.stage = "done" =>
    /\ CkLength <= ck.max
    /\ ~ck.forced => (CkLength <= 0 \/ CkLength % ck.avg = 0)

\* C10 amended: when the force push fired the range ends at latestChildBlock,
\* and is at most MaxCheckpointLength long if MaxCheckpointLength > 1 (with
\* MaxCheckpointLength = 1 every range has end = start, which the force push
\* takes for "nothing new" and stretches to latestChildBlock, beyond the
\* maximum).  When it did not fire the range is at most MaxCheckpointLength
\* long and its length is a multiple of AvgCheckpointLength, or
\* MaxCheckpointLength (the cap was applied), or 1 with fewer than
\* AvgCheckpointLength new blocks (end = start), or nothing was produced
\* (end < start).
C10_CheckpointBounds ==
  ck.stage = "done" =>
    /\ ck.forced => /\ ck.end = ck.latestChildBlock
                    /\ ck.max > 1 => CkLength <= ck.max
    /\ ~ck.forced =>
         /\ CkLength <= ck.max
         /\ \/ CkLength <= 0
            \/ CkLength % ck.avg = 0
            \/ CkLength = ck.max
            \/ (CkLength = 1 /\ 0 < ck.diff /\ ck.diff < ck.avg)

\* C10 witness: more blocks are available than MaxCheckpointLength, which is
\* no multiple of AvgCheckpointLength, and the range is cut to it.
C10_Witness ==
  /\ ck.stage = "done" /\ ~ck.forced
  /\ ck.latestChildBlock - ck.start + 1 > ck.max
  /\ ck.max % ck.avg # 0
  /\ CkLength = ck.max

\* the on-chain checkpoint is older than 2 * MaxCheckpointLength seconds
CkStale == ck.clock - ck.timeStamp > 2 * ck.max

\* the range lines 298-319 compute before the force push is considered
CkNormal == ExpectedRange(ck.endBlock, ck.latestChildBlock, ck.avg, ck.max)

\* C11 as claimed: the force push fires if and only if the on-chain
\* checkpoint is stale and fewer than AvgCheckpointLength new child blocks
\* are available.
C11_TriggerAsClaimed ==
  ck.stage = "done" => (ck.forced <=> (CkStale /\ ck.diff < ck.avg))

\* C11 amended: the force push fires if and only if the on-chain checkpoint
\* is stale and the normal range has end = 0, or end = start, or covers
\* fewer than AvgCheckpointLength new blocks; it never fires on a fresh
\* checkpoint, and with AvgCheckpointLength or more new blocks it fires only
\* on a one-block normal range (AvgCheckpointLength = 1 with one new block,
\* or MaxCheckpointLength = 1).
C11_ForcePushTrigger ==
  ck.stage = "done" =>
    /\ ck.forced <=>
         /\ CkStale
         /\ \/ CkNormal.end = 0
            \/ CkNormal.end = CkNormal.start
            \/ (0 < ck.diff /\ ck.diff < ck.avg)
    /\ (CkStale /\ ck.diff < ck.avg) => ck.forced
    /\ (ck.forced /\ ck.diff >= ck.avg) =>
         /\ CkNormal.end = CkNormal.start
         /\ (ck.avg = 1 /\ ck.diff = 1) \/ ck.max = 1

\* C11 witness: a stale checkpoint, MaxCheckpointLength > 1 and as many new
\* blocks as AvgCheckpointLength, and the force push fired.
C11_Witness ==
  /\ ck.stage = "done" /\ ck.forced
  /\ ck.max > 1 /\ ck.diff >= ck.avg

\* the three fetches of sendRequest succeeded and determineAction was called
CkDecided == ck.stage = "decided" /\ ck.decision # "nilDereference"

\* committed.end + 1 == start of the range handed to determineAction
CkAckDue == U64(ck.committedEnd + 1) = ck.start

\* C12: when committed.end + 1 == onChain.start, determineAction submits
\* exactly one CheckpointAck and no CheckpointBlock.
C12_AckRule ==
  (CkDecided /\ CkAckDue) =>
    /\ ck.decision = "returned"
    /\ Len(ck.submitted) = 1
    /\ ck.submitted[1].type = "CheckpointAck"

\* C13: when an ACK is not due and the computed range holds new blocks, the
\* decision submits one CheckpointBlock(start, end) for the computed range.
C13_ProposeRule ==
  (CkDecided /\ ~CkAckDue /\ ck.start < ck.end) =>
    /\ Len(ck.submitted) = 1
    /\ ck.submitted[1].type = "CheckpointBlock"
    /\ ck.submitted[1].start = ck.start
    /\ ck.submitted[1].end = ck.end

\* C14: when the force push fires the produced end is latestChildBlock and
\* the start is the normal one; when it does not fire the normal start and
\* end are returned.
C14_ForcePushEffect ==
  ck.stage = "done" =>
    /\ ck.start = CkNormal.start
    /\ ck.forced => ck.end = ck.latestChildBlock
    /\ ~ck.forced => ck.end = CkNormal.end

\* C14 witness: fewer than AvgCheckpointLength new blocks on a stale
\* checkpoint: the force push moved the end from the normal one up to
\* latestChildBlock.
C14_Witness ==
  /\ ck.stage = "done" /\ ck.forced
  /\ 0 < ck.diff /\ ck.diff < ck.avg
  /\ CkNormal.end < ck.end
  /\ ck.end = ck.latestChildBlock

\* C15: when latestChildBlock + 1 < start, so that diff wraps around, the
\* produced range does not reach beyond latestChildBlock.
C15_UnderflowIdle ==
  (ck.stage = "done" /\ ck.latestChildBlock + 1 < ck.start) =>
    ck.end <= ck.latestChildBlock

\* ====================================================== SpanService claims
\* the latest tick handed a ProposeSpan transaction to BroadcastTxBytes
SpanBroadcast == spanSvc.outcome \in {"broadcast", "broadcastError"}

\* C16: every ProposeSpan message that the span service broadcasts has
\* StartBlock = lastSpan.EndBlock + 1, lastSpan being the span fetched in the
\* same propose call, whatever the next-span-info endpoint answered.
C16_SpanContiguity ==
  SpanBroadcast => spanSvc.msgStart = spanSvc.lastSpanEnd + 1

\* the span-proposer query of the latest tick succeeded, was decoded and
\* named the local address
SpanProposerIsMe == spanSvc.query = "ok" /\ spanSvc.signer = GetAddress(me)

\* C17: in every timer tick propose is started exactly when the
\* span-proposer query succeeded, could be decoded and named the local
\* address; a tick whose query failed, could not be decoded or named another
\* validator broadcasts no ProposeSpan and starts no relay, and while the
\* process lives the timer still ticks, so the next tick asks again.
C17_ProposerGating ==
  spanSvc.ticks > 0 =>
    /\ spanSvc.started <=> SpanProposerIsMe
    /\ ~SpanProposerIsMe =>
         /\ spanSvc.outcome = "notStarted"
         /\ spanSvc.relays[spanSvc.ticks] = NoRelay
         /\ (spanSvc.ticks < MaxSpanTick /\ ~SpanCrashed) =>
              ENABLED SpanTick("ok", GetAddress(me), NoProposeInput)

\* C17 witness: the endpoint named another validator in the second tick,
\* after a tick in which this process was the proposer and broadcast
C17_Witness ==
  /\ spanSvc.ticks = 2
  /\ spanSvc.query = "ok" /\ spanSvc.signer \notin {GetAddress(me), "zero"}
  /\ ~spanSvc.started
  /\ spanSvc.relays[1].broadcast = "ok"
  /\ spanSvc.relays[2] = NoRelay

\* the relay of tick i
Relay(i) == spanSvc.relays[i]

\* the relay of tick i met one of the failures: the broadcast was refused,
\* the wait for the commit ended in an error, the votes or the transaction
\* with its proof could not be fetched
RelayFailed(i) ==
  \/ Relay(i).broadcast = "err"
  \/ Relay(i).event = "timeout"
  \/ Relay(i).votes = "err"
  \/ Relay(i).proof = "err"

C19_TxBodyIsTxWithoutPrefix ==
  \A i \in 1..MaxSpanTick :
    Relay(i).called =>
      /\ Len(Relay(i).body) = Len(Relay(i).tx) - 4
      /\ \A k \in 1..Len(Relay(i).body) :
           Relay(i).body[k] = Relay(i).tx[k + 4]

\* C19 witness: CommitSpan was called for the six-byte transaction
\* 6 5 4 3 2 1 with the body 2 1
C19_Witness ==
  \E i \in 1..MaxSpanTick :
    /\ Relay(i).called
    /\ Relay(i).tx = <<6, 5, 4, 3, 2, 1>>
    /\ Relay(i).body = <<2, 1>>

\* ==================================================== Header source claims
\* C20: in a run of the Syncer the subscription is attempted exactly once,
\* and before any polling; when the attempt fails the polling source runs and
\* no second attempt is made; the subscription and the polling source are
\* never active together, and what either sends goes to HeaderChannel, the
\* channel the header process reads.
C20_HeaderSource ==
  /\ headerSource.phase = "new" =>
       /\ headerSource.attempts = 0 /\ headerSource.polls = 0
       /\ headerSource.polling = "none"
  /\ headerSource.phase # "new" => headerSource.attempts = 1
  /\ headerSource.polling # "none" =>
       /\ headerSource.subscription = "failed"
       /\ headerSource.attempts = 1
  /\ (headerSource.subscription = "failed" /\ headerSource.phase = "running")
       => headerSource.polling = "active"
  /\ ~(headerSource.subscription = "active" /\ headerSource.polling = "active")
  /\ headerSource.subscribedTo \in {"none", "HeaderChannel"}
  /\ headerSource.polledTo \in {"none", "HeaderChannel"}
  /\ \A i \in 1..Len(headerSource.HeaderChannel) :
       headerSource.HeaderChannel[i].source
         = IF headerSource.subscription = "failed" THEN "polling"
           ELSE "subscription"

\* C20 witness: the attempt failed, the polling source has ticked twice and
\* a polled header was taken from HeaderChannel
C20_Witness ==
  /\ headerSource.phase = "running"
  /\ headerSource.subscription = "failed" /\ headerSource.attempts = 1
  /\ headerSource.polling = "active" /\ headerSource.polls = 2
  /\ headerSource.polledTo = "HeaderChannel"
  /\ headerSource.received > 0

\* the header-processing task has not returned
HeaderProcessAlive == headerSource.headerProcess \in {"waiting", "processing"}

\* C21: once an established subscription has reported an error the Syncer
\* is stopped, the source context and the header-processing context are both
\* cancelled and no polling goroutine exists; and from then on the header
\* processing eventually ceases.
C21_SubscriptionErrorStops ==
  /\ [](headerSource.subscription = "errored" =>
          /\ headerSource.phase = "stopped"
          /\ headerSource.ctxCancelled /\ headerSource.headerCtxCancelled
          /\ headerSource.polling = "none")
  /\ (headerSource.subscription = "errored") ~> ~HeaderProcessAlive

\* C21 witness: the subscription delivered a header that was processed, then
\* reported an error, and the header process has returned
C21_Witness ==
  /\ headerSource.subscription = "errored"
  /\ headerSource.headerProcess = "stopped"
  /\ Len(headerSource.handled) > 0

\* C22: after OnStop every task started by OnStart eventually terminates:
\* the header-processing task and the polling or subscription-watching task.
C22_TasksTerminate ==
  (headerSource.phase = "stopped") ~>
    (/\ ~HeaderProcessAlive
     /\ headerSource.polling # "active"
     /\ headerSource.subscription # "active")

\* C23: header processing is serialized: at most one processHeader execution
\* is active at any time and it runs in the header-processing task itself,
\* the only caller of processHeader and so the only task that touches the
\* header queue; and the headers are processed in the order in which they
\* were taken from HeaderChannel.
C23_SerializedProcessing ==
  /\ Len(headerSource.executing) <= 1
  /\ \A i \in 1..Len(headerSource.executing) :
       /\ headerSource.executing[i].task = "headerProcess"
       /\ headerSource.headerProcess = "processing"
  /\ headerSource.headerProcess = "processing" =>
       Len(headerSource.executing) = 1
  /\ headerSource.taken
       = headerSource.handled
           \o [i \in 1..Len(headerSource.executing) |->
                 headerSource.executing[i].number]

\* C23 witness: header 2, then header 1 were taken from HeaderChannel; the
\* first is processed, the second is being processed
C23_Witness ==
  /\ headerSource.taken = <<2, 1>>
  /\ headerSource.handled = <<2>>
  /\ Len(headerSource.executing) = 1
  /\ headerSource.executing[1].number = 1

\* C24: a sendRequest call in which one of the three fetches failed is
\* abandoned: nothing is submitted and the call returns, so that the
\* checkpointer can take the next header; no call ends in the dereference of
\* a result that a failed fetch left nil.
C24_PartialFailureAborts ==
  ck.stage = "decided" =>
    /\ ck.decision # "nilDereference"
    /\ ck.decision = "returned" \/ ck.submitted = << >>

\* C25: once a span proposal has been handled (its ProposeSpan was broadcast
\* and committed and CommitSpan was called), the bridge DB holds under
\* span-key the id of a handled span.
C25_SpanCursor ==
  (\E i \in 1..MaxSpanTick : Relay(i).called) =>
    /\ storage[lastSpanKey].has
    /\ fetchLastSpan(storage) > 0

\* ============================================== processHeader range claims
\* the queue of the call after the push of the arriving header
ScanPushed == Append(scan.queue, scan.header)

\* the cursor the call found, -1 when none is stored
ScanCursor == Cursor(scan.storage)

ScanMax(a, b) == IF a > b THEN a ELSE b

\* C26: when processHeader issues a query, its fromBlock is the number f of
\* the first drained header if no cursor is stored and max(f, c + 1) if the
\* cursor c is stored, and its toBlock is the number of the last drained
\* header.
C26_EffectiveScanStart ==
  (scan.stage = "done" /\ scan.queried) =>
    /\ scan.from = IF scan.storage[lastBlockKey].has
                   THEN ScanMax(ScanPushed[1].number, ScanCursor + 1)
                   ELSE ScanPushed[1].number
    /\ scan.to = ScanPushed[scan.drained].number

\* C27: a call whose effective from is greater than to issues no query and
\* leaves the bridge DB as it found it; every issued query has from <= to.
C27_EmptyRangeSkipped ==
  scan.stage = "done" =>
    /\ scan.queried => scan.from <= scan.to
    /\ (scan.drained > 0 /\ scan.from > scan.to) =>
         scan.storageAfter = scan.storage

\* C28: processHeader pushes the arriving header at the tail and removes
\* from the head exactly the longest prefix of confirmed headers (time +
\* txConfirmationTime <= now): every removed header is confirmed, the first
\* one left is not, whatever follows it; the range runs from the number of
\* the first removed header to the number of the last removed one; if nothing
\* is removed no query is issued, the bridge DB is unchanged and the queue
\* holds its old headers and the new one.
C28_Drain ==
  scan.stage = "done" =>
    LET q1 == ScanPushed
        n == scan.drained
    IN /\ n \in 0..Len(q1)
       /\ \A i \in 1..n : q1[i].time + TxConfirmationTime <= scan.clock
       /\ n < Len(q1) => q1[n + 1].time + TxConfirmationTime > scan.clock
       /\ scan.queueAfter = SubSeq(q1, n + 1, Len(q1))
       /\ n > 0 => (scan.start = q1[1].number /\ scan.end = q1[n].number)
       /\ n = 0 => (/\ ~scan.queried
                    /\ scan.storageAfter = scan.storage
                    /\ scan.queueAfter = q1)

\* C28 witness: of three headers the first is removed, the second is not
\* confirmed and stays together with the confirmed third one
C28_Witness ==
  /\ scan.stage = "done" /\ scan.drained = 1
  /\ Len(ScanPushed) = 3
  /\ ScanPushed[2].time + TxConfirmationTime > scan.clock
  /\ ScanPushed[3].time + TxConfirmationTime <= scan.clock
  /\ Len(scan.queueAfter) = 2

\* ============================================ Checkpoint decision claims
CkMin(a, b) == IF a < b THEN a ELSE b

\* C29: nextExpectedCheckpoint returns start = onChain.end + 1 for a
\* positive onChain.end and 0 otherwise; and when diff = latestChildBlock -
\* start + 1 is positive and the force push does not fire, end = start +
\* min(MaxCheckpointLength - 1, d - (1 if d > 0 else 0)) with d = diff -
\* (diff mod AvgCheckpointLength), in the integers.
C29_RangeFormula ==
  ck.stage = "done" =>
    LET start == ck.endBlock + (IF ck.endBlock > 0 THEN 1 ELSE 0)
        diff == ck.latestChildBlock - start + 1
        d == diff - (diff % ck.avg)
    IN /\ ck.start = start
       /\ (diff > 0 /\ ~ck.forced) =>
            ck.end = start + CkMin(ck.max - 1, d - (IF d > 0 THEN 1 ELSE 0))

\* C29 witness: on-chain end 1, six child blocks, AvgCheckpointLength 2 and
\* MaxCheckpointLength 4: diff = 5, d = 4, uncapped, the range is [2, 5]
C29_Witness ==
  /\ ck.stage = "done" /\ ~ck.forced
  /\ ck.endBlock = 1 /\ ck.latestChildBlock = 6
  /\ ck.avg = 2 /\ ck.max = 4
  /\ ck.start = 2 /\ ck.end = 5

JoinAllFinished ==
  \A t \in FetchTaskSet : join.task[t] = "done" /\ join.result[t] # "unset"

\* C30: in every interleaving of the three fetch tasks of sendRequest, the
\* caller is past wg.Wait() only when all three tasks have finished with
\* their result variable assigned, so determineAction starts only then, and
\* no result variable is read before the task writing it has completed.
C30_JoinBarrier ==
  /\ join.main \in {"joined", "determineAction", "panicked"} => JoinAllFinished
  /\ \A t \in FetchTaskSet : join.read[t] # "beforeDone"

\* C30 witness: determineAction has started on three results, each read
\* after its task finished
C30_Witness ==
  /\ join.main = "determineAction"
  /\ \A t \in FetchTaskSet : join.read[t] = "afterDone" /\ join.result[t] = "state"

\* ================================================== Span service claims
\* the latest tick started a propose call that went on to ProposeNewSpan
SpanProposeCalled ==
  spanSvc.outcome \in {"detailsError", "signError", "broadcastError", "broadcast"}

\* the latest tick left nothing broadcast and no commit to wait for
SpanNothingSent ==
  /\ ~SpanProposeCalled
  /\ spanSvc.ticks > 0 => spanSvc.relays[spanSvc.ticks] = NoRelay

FirstAbi(tables, topic) ==
  IF \E k \in 1..Len(tables) : topic \in tables[k]
  THEN CHOOSE k \in 1..Len(tables) :
         /\ topic \in tables[k]
         /\ \A j \in 1..(k - 1) : topic \notin tables[j]
  ELSE 0

\* the handler calls the loop made for log i
CallsOf(i) ==
  { n \in 1..Len(logDispatch.calls) : logDispatch.calls[n].log = i }

\* C32: for each log the ABIs are tried in the order RootChain, StateSender,
\* StakingInfo and at most one handler is invoked, with the first ABI whose
\* event table holds the log's first topic; a log whose selector is in no
\* ABI, or whose event name has no handler, yields no call and no message,
\* and the later logs of the range are still processed.
C32_LogDispatch ==
  logDispatch.stage = "done" =>
    \A i \in 1..Len(logDispatch.logs) :
      LET topic == logDispatch.logs[i][1]
          first == FirstAbi(logDispatch.tables, topic)
      IN IF first # 0 /\ topic \in HandledNames
         THEN /\ Cardinality(CallsOf(i)) = 1
              /\ \A n \in CallsOf(i) :
                   /\ logDispatch.calls[n].abi = first
                   /\ logDispatch.calls[n].name = topic
         ELSE CallsOf(i) = {}

\* C32 witness: a log of an event without handler, then a log whose topic
\* two ABIs hold, handled once with the first of them
C32_Witness ==
  /\ logDispatch.stage = "done"
  /\ Len(logDispatch.logs) = 2
  /\ logDispatch.logs[1][1] \in {"Staked", "Withdraw"}
  /\ Cardinality({ k \in 1..3 : logDispatch.logs[2][1] \in logDispatch.tables[k] }) = 2
  /\ Len(logDispatch.calls) = 1
  /\ logDispatch.calls[1].log = 2
  /\ logDispatch.calls[1].abi = FirstAbi(logDispatch.tables, logDispatch.logs[2][1])

\* C33: a log whose unpack fails in its handler yields no message, and every
\* remaining log of the range is still dispatched, in the order of the
\* query result.
C33_DecodeErrorLocal ==
  logDispatch.stage = "done" =>
    /\ \A n \in 1..Len(logDispatch.calls) :
         ~logDispatch.logs[logDispatch.calls[n].log][2]
           => logDispatch.calls[n].msgs = << >>
    /\ \A i \in 1..Len(logDispatch.logs) :
         (FirstAbi(logDispatch.tables, logDispatch.logs[i][1]) # 0
            /\ logDispatch.logs[i][1] \in HandledNames) => CallsOf(i) # {}
    /\ \A n, m \in 1..Len(logDispatch.calls) :
         n < m => logDispatch.calls[n].log <= logDispatch.calls[m].log

\* C33 witness: the unpack of the first log failed and the second log was
\* dispatched after it and broadcast its message
C33_Witness ==
  /\ logDispatch.stage = "done"
  /\ Len(logDispatch.logs) = 2
  /\ ~logDispatch.logs[1][2]
  /\ Len(logDispatch.calls) = 2
  /\ logDispatch.calls[1].log = 1 /\ logDispatch.calls[1].msgs = << >>
  /\ logDispatch.calls[2].log = 2 /\ Len(logDispatch.calls[2].msgs) = 1

\* ================================================ Storage failure claims
\* C34: when reading the stored last-block value fails in processHeader the
\* cursor counts as absent for this tick: a call that removed headers from
\* the queue goes on to the query, and after a failed read the query starts
\* at the number of the first drained header, so no drained header is left
\* without a scan covering it.
C34_ReadFailureStillScans ==
  last.drained > 0 =>
    /\ Issued
    /\ last.outcome # "getError"

\* relay i has a ProposeSpan accepted by BroadcastTxBytes whose commit is
\* still awaited or whose DispatchProposal has not run
SpanInFlight(i) ==
  /\ spanSvc.relays[i].broadcast = "ok"
  /\ \/ spanSvc.relays[i].event = "none"
     \/ spanSvc.relays[i].event = "tx" /\ spanSvc.relays[i].votes = "none"

\* C35: across the ticks of the span timer no ProposeSpan is broadcast for
\* a start block while an earlier proposal for the same start block is
\* still awaited or relayed: a tick that broadcasts while the proposal of
\* the tick before it is in flight carries another StartBlock.
C35_NoDuplicateProposal ==
  [][(/\ spanSvc.ticks > 0
      /\ spanSvc'.ticks = spanSvc.ticks + 1
      /\ spanSvc.outcome = "broadcast"
      /\ SpanInFlight(spanSvc.ticks)
      /\ spanSvc'.outcome = "broadcast")
       => spanSvc'.msgStart # spanSvc.msgStart]_vars

\* ============================================= Checkpoint range claims
\* C36: every (start, end) returned by nextExpectedCheckpoint satisfies
\* start <= end <= latestChildBlock, whatever the on-chain end, the on-chain
\* timestamp and latestChildBlock, the case latestChildBlock + 1 = start and
\* the on-chain end 0 included.
C36_WellFormedRange ==
  ck.stage = "done" =>
    /\ ck.start <= ck.end
    /\ ck.end <= ck.latestChildBlock

\* ================================================== Bridge DB close claims
\* C37: in every interleaving of Syncer.OnStop with a processHeader
\* execution the header-processing task makes no Has, Get or Put on the
\* bridge DB after OnStop has closed it.
C37_NoStoreAccessAfterClose ==
  \A n \in 1..Len(dbClose.accessed) : ~dbClose.accessed[n].closed

C40_BlockOfRequestedHeight ==
  blockWait.result.kind = "block" => blockWait.result.height = blockWait.height

====
